---- MODULE Spec2Model ----
(***************************************************************************)
(* Presence-to-action decision engine of unifi-gate-opener: the poll cycle *)
(* (pollUniFi), the per-device classification (handleDeviceConnected,      *)
(* handleDeviceRoamed, handleDeviceDisconnected), the cooldown-gated       *)
(* actuator trigger (checkAndOpenGate) and the device_states table.        *)
(*                                                                         *)
(* Time is in seconds.  One poll cycle is one action: it runs under        *)
(* monitoringMu and reads the clock once (the code reads time.Now()        *)
(* several times during a cycle; the readings only grow, which can only    *)
(* lengthen the distance between two actuator calls).                      *)
(***************************************************************************)
EXTENDS Integers, Sequences, FiniteSets, TLC

VARIABLES
    now,            \* the clock, seconds since the first start
    config,         \* app.Config: GateAPMAC, OpenDuration, LogActivity, Devices
    isMonitoring,   \* app.isMonitoring
    deviceStates,   \* app.deviceStates: normalized MAC -> DeviceState
    db,             \* table device_states: mac -> row
    lastSnapshot,   \* the client list the most recent poll cycle processed, if any
    replayed,       \* whether the poll cycle before it processed the same list
    cycle,          \* what the most recent poll cycle did for each device
    hist,           \* per device: the trigger controller's history
    stopMonitoring, \* app.stopMonitoring: the channel it holds (0: nil)
    closes,         \* per channel (0: nil): how often close was called on it
    loops,          \* per StartMonitoring call that began a session: its goroutine
    starts,         \* number of StartMonitoring calls so far
    stops,          \* number of StopMonitoring calls so far
    authRetryCount,     \* app.authRetryCount
    lastAuthAttempt,    \* app.lastAuthAttempt
    authRetryBackoff,   \* app.authRetryBackoff, a 64-bit Duration in nanoseconds
    authTrail,          \* the outcomes of the most recent login attempts
    request,            \* the most recent device request and its response
    io,                 \* the controller calls of the most recent poll cycle that
                        \* began with a failed or observed fetch, and their results
    controller,         \* the UniFi controller as the client meets it
    inFlight            \* the callers that are inside UniFiClient.Login

\* the monitoring lifecycle
lifeVars == <<stopMonitoring, closes, loops, starts, stops>>

\* the authentication retry state
authVars == <<authRetryCount, lastAuthAttempt, authRetryBackoff, authTrail>>

\* the controller and the calls made on it
ioVars == <<io, controller, inFlight>>

vars == <<now, config, isMonitoring, deviceStates, db, lastSnapshot, replayed, cycle, hist,
          lifeVars, authVars, request, ioVars>>

----------------------------------------------------------------------------
(* Bounds of the model *)

\* The clock advances in steps of ClockStep seconds: MaxSteps times where the
\* device moves between two APs, MaxPollSteps times under every snapshot.
MaxSteps == 4

MaxPollSteps == 1

\* device requests served
MaxRequests == 2

\* StartMonitoring and StopMonitoring calls made
MaxStarts == 2

MaxStops == 2

\* consecutive failed re-authentication attempts
MaxRetries == 36

\* login attempts recorded, and seconds they are spread over
MaxAttempts == 5

MaxAuthSeconds == 7

\* seconds the poll cycles against a flaky controller are spread over
MaxFetchSeconds == 2

----------------------------------------------------------------------------
(* Program constants *)

\* time.Minute, in seconds
Minute == 60

\* the uptime below which a connect at the gate AP is a fresh arrival
FreshUptime == 30

\* time.Time{}: the zero time, before every clock reading
ZeroTime == -1

ClockStep == Minute \div 2

directionArriving == "arriving"
directionLeaving == "leaving"
directionUnknown == "unknown"

----------------------------------------------------------------------------
(* Input domains *)

GateAP == "GATE"

\* access-point identifiers a client can report; "" is an empty ap_mac
APs == {"", GateAP, "AP1", "AP2"}

\* reported uptimes, on both sides of the freshness threshold
Uptimes == {FreshUptime - 1, FreshUptime}

\* configured cooldowns (minutes)
OpenDurations == {0, 1, 2}

\* hardware addresses, normalized
MACs == {"AA:01", "AA:02"}

\* strings.ToUpper
ToUpper(s) ==
    CASE s = "aa:01" -> "AA:01"
      [] s = "aa:02" -> "AA:02"
      [] OTHER -> s

Range(f) == {f[x] : x \in DOMAIN f}

----------------------------------------------------------------------------
(* Time *)

\* SinceLess with the comparison turned around
SinceLessInverted(t, clock, d) ==
    IF t = ZeroTime THEN FALSE ELSE clock - t > d

\* SinceLess with the zero time taken for an instant just before the start
SinceLessEpoch(t, clock, d) == clock - t < d

\* time.Since(t) < d at clock reading clock.  time.Since of the zero time
\* saturates at the largest Duration, which is below no Duration.
SinceLess(t, clock, d) ==
    IF t = ZeroTime THEN FALSE ELSE clock - t < d

----------------------------------------------------------------------------
(* Durations: 64-bit two's complement words, as the set of their 1 bits *)

\* time.Second, in nanoseconds
Second == 1000000000

WordBits == 0..63

\* the word of a small non-negative integer
FromInt(n) == {i \in 0..30 : (n \div 2^i) % 2 = 1}

\* w << k on a 64-bit word: the bits shifted out are lost, and a shift by 64
\* or more gives 0
Shl(w, k) == {i + k : i \in w} \cap WordBits

\* the carry into bit i of a + b: some lower bit generates a carry, and
\* every bit between propagates it
Carry(a, b, i) ==
    \E j \in a \cap b :
       /\ j < i
       /\ \A k \in (j + 1)..(i - 1) : k \in a \/ k \in b

\* a + b, wrapping around: the carry out of bit 63 is lost (the operands are
\* evaluated once, as x and y)
Add(a, b) ==
    CHOOSE sum \in {IF x = {} THEN y
                    ELSE IF y = {} THEN x
                    ELSE {i \in WordBits : ((i \in x) # (i \in y)) # Carry(x, y, i)} :
                       x \in {a}, y \in {b}} : TRUE

\* a * b, wrapping around: the sum of b << i over the 1 bits i of a
RECURSIVE Mul(_, _)
Mul(a, b) ==
    IF a = {} THEN {}
    ELSE CHOOSE product \in {Add(Shl(b, i), Mul(a \ {i}, b)) : i \in {CHOOSE x \in a : TRUE}} :
            TRUE

IsNegative(w) == 63 \in w

\* a < b on signed words
Less(a, b) ==
    \E x \in {a}, y \in {b} :
       IF IsNegative(x) # IsNegative(y) THEN IsNegative(x)
       ELSE /\ x # y
            /\ \E top \in (x \ y) \cup (y \ x) :
                  /\ \A bit \in (x \ y) \cup (y \ x) : bit <= top
                  /\ top \in y

\* time.Second as a word
SecondWord == FromInt(Second)

\* n * time.Second
Seconds(n) == Mul(FromInt(n), SecondWord)

\* the largest Duration
MaxDuration == 0..62

\* time.Since(t) at clock reading clock, saturating for the zero time
Since(t, clock) ==
    IF t = ZeroTime THEN MaxDuration ELSE Seconds(clock - t)

----------------------------------------------------------------------------
(* The persisted device_states table *)

\* a row of device_states; last_gate_trigger NULL reads back as the zero time
NewRow(ap, seen, conn) ==
    [current_ap |-> ap, last_seen |-> seen, is_connected |-> conn,
     last_gate_trigger |-> ZeroTime]

\* INSERT ... ON CONFLICT(mac) DO UPDATE SET current_ap, last_seen, is_connected
UpdateDeviceState(table, mac, currentAP, isConnected, clock) ==
    IF mac \in DOMAIN table
    THEN [table EXCEPT ![mac] = [@ EXCEPT !.current_ap = currentAP,
                                           !.last_seen = clock,
                                           !.is_connected = isConnected]]
    ELSE (mac :> NewRow(currentAP, clock, isConnected)) @@ table

\* UPDATE device_states SET last_gate_trigger = CURRENT_TIMESTAMP WHERE mac = ?
UpdateLastGateTrigger(table, mac, clock) ==
    IF mac \in DOMAIN table
    THEN [table EXCEPT ![mac] = [@ EXCEPT !.last_gate_trigger = clock]]
    ELSE table

\* SELECT current_ap, last_seen, is_connected; no row gives the zero values
GetDeviceState(table, mac) ==
    IF mac \in DOMAIN table
    THEN [currentAP |-> table[mac].current_ap, lastSeen |-> table[mac].last_seen,
          isConnected |-> table[mac].is_connected]
    ELSE [currentAP |-> "", lastSeen |-> ZeroTime, isConnected |-> FALSE]

\* SELECT last_gate_trigger; no row or NULL gives the zero time
GetLastGateTrigger(table, mac) ==
    IF mac \in DOMAIN table THEN table[mac].last_gate_trigger ELSE ZeroTime

\* the statements one device's processing sent to the table, applied in order
RECURSIVE ApplyOps(_, _, _)
ApplyOps(table, ops, clock) ==
    IF ops = <<>> THEN table
    ELSE LET o == Head(ops)
             t1 == IF o.op = "trigger"
                   THEN UpdateLastGateTrigger(table, o.mac, clock)
                   ELSE UpdateDeviceState(table, o.mac, o.ap, o.conn, clock)
         IN ApplyOps(t1, Tail(ops), clock)

----------------------------------------------------------------------------
(* The registry *)

\* DeviceState with the device taken for connected
DeviceStateConnected(mac, name) ==
    [MAC |-> mac, Name |-> name, CurrentAP |-> "", PreviousAP |-> "",
     LastSeen |-> ZeroTime, IsConnected |-> TRUE, LastGateTrigger |-> ZeroTime]

\* &DeviceState{MAC: mac, Name: name}: the other fields are zero values
DeviceState(mac, name) ==
    [MAC |-> mac, Name |-> name, CurrentAP |-> "", PreviousAP |-> "",
     LastSeen |-> ZeroTime, IsConnected |-> FALSE, LastGateTrigger |-> ZeroTime]

\* loadDeviceStates: one DeviceState per enabled configured device, read from
\* the table under the MAC as configured, stored under the normalized MAC
RECURSIVE loadDeviceStates(_, _, _)
loadDeviceStates(devices, table, states) ==
    IF devices = <<>> THEN states
    ELSE LET device == Head(devices)
             st == GetDeviceState(table, device.MAC)
             normalizedMAC == ToUpper(device.MAC)
             loaded == [MAC |-> normalizedMAC, Name |-> device.Name,
                        CurrentAP |-> st.currentAP, PreviousAP |-> "",
                        LastSeen |-> st.lastSeen, IsConnected |-> st.isConnected,
                        LastGateTrigger |-> GetLastGateTrigger(table, device.MAC)]
         IN IF ~device.Enabled
            THEN loadDeviceStates(Tail(devices), table, states)
            ELSE loadDeviceStates(Tail(devices), table,
                                  (normalizedMAC :> loaded) @@
                                  [m \in DOMAIN states \ {normalizedMAC} |-> states[m]])

----------------------------------------------------------------------------
(* The event log *)

LogEntry(state, event, direction, fromAP, toAP, gateOpened) ==
    [DeviceMAC |-> state.MAC, DeviceName |-> state.Name, Event |-> event,
     Direction |-> direction, FromAP |-> fromAP, ToAP |-> toAP,
     GateOpened |-> gateOpened]

\* if app.Config.Gate.LogActivity { app.DB.LogEvent(entry) }: the entry is
\* appended when the flag is set and the INSERT succeeds; a failure is only
\* reported to the logger
LogEvent(cfg, entry, ok) ==
    IF cfg.LogActivity /\ ok THEN <<entry>> ELSE <<>>

----------------------------------------------------------------------------
(* The gate trigger controller *)

\* cooldownDuration without the conversion from minutes
cooldownSeconds(cfg) == cfg.OpenDuration

\* the cooldown, in seconds: time.Duration(OpenDuration) * time.Minute
cooldownDuration(cfg) == cfg.OpenDuration * Minute

\* checkAndOpenGate recording the trigger time before it knows the outcome of
\* OpenGate
checkAndOpenGateEager(state, direction, cfg, clock, actOK, logOK) ==
    IF SinceLess(state.LastGateTrigger, clock, cooldownDuration(cfg))
    THEN [state |-> state,
          log |-> LogEvent(cfg, LogEntry(state, "gate_skipped", direction, "", "", FALSE), logOK),
          calls |-> <<>>,
          ops |-> <<>>]
    ELSE [state |-> [state EXCEPT !.LastGateTrigger = clock],
          log |-> LogEvent(cfg, LogEntry(state, IF actOK THEN "gate_triggered" ELSE "gate_error",
                                         direction, "", "", actOK), logOK),
          calls |-> <<IF actOK THEN "ok" ELSE "fail">>,
          ops |-> <<[op |-> "trigger", mac |-> state.MAC]>>]

\* checkAndOpenGate with the trigger time recorded only when activity is logged
checkAndOpenGateLogged(state, direction, cfg, clock, actOK, logOK) ==
    IF SinceLess(state.LastGateTrigger, clock, cooldownDuration(cfg))
    THEN [state |-> state,
          log |-> LogEvent(cfg, LogEntry(state, "gate_skipped", direction, "", "", FALSE), logOK),
          calls |-> <<>>,
          ops |-> <<>>]
    ELSE IF ~actOK
    THEN [state |-> state,
          log |-> LogEvent(cfg, LogEntry(state, "gate_error", direction, "", "", FALSE), logOK),
          calls |-> <<"fail">>,
          ops |-> <<>>]
    ELSE [state |-> IF cfg.LogActivity THEN [state EXCEPT !.LastGateTrigger = clock] ELSE state,
          log |-> LogEvent(cfg, LogEntry(state, "gate_triggered", direction, "", "", TRUE), logOK),
          calls |-> <<"ok">>,
          ops |-> IF cfg.LogActivity THEN <<[op |-> "trigger", mac |-> state.MAC]>> ELSE <<>>]

\* checkAndOpenGate.  actOK: whether GateController.OpenGate succeeds.
\* Result: the device state, the log entries written, the OpenGate calls made
\* with their outcomes, and the statements sent to the table.
checkAndOpenGate(state, direction, cfg, clock, actOK, logOK) ==
    IF SinceLess(state.LastGateTrigger, clock, cooldownDuration(cfg))
    THEN [state |-> state,
          log |-> LogEvent(cfg, LogEntry(state, "gate_skipped", direction, "", "", FALSE), logOK),
          calls |-> <<>>,
          ops |-> <<>>]
    ELSE IF ~actOK
    THEN [state |-> state,
          log |-> LogEvent(cfg, LogEntry(state, "gate_error", direction, "", "", FALSE), logOK),
          calls |-> <<"fail">>,
          ops |-> <<>>]
    ELSE [state |-> [state EXCEPT !.LastGateTrigger = clock],
          log |-> LogEvent(cfg, LogEntry(state, "gate_triggered", direction, "", "", TRUE), logOK),
          calls |-> <<"ok">>,
          ops |-> <<[op |-> "trigger", mac |-> state.MAC]>>]

\* the result of a handler that did not reach checkAndOpenGate
NoGate(state) ==
    [state |-> state, log |-> <<>>, calls |-> <<>>, ops |-> <<>>]

----------------------------------------------------------------------------
(* The direction classifier and the event handlers *)

\* ConnectDirection never recognising the gate AP
ConnectDirectionUnknown(toAP, gateAP) == directionUnknown

\* handleDeviceConnected's direction
ConnectDirection(toAP, gateAP) ==
    IF toAP = gateAP THEN directionArriving ELSE directionUnknown

\* RoamDirection with leaving and arriving exchanged
RoamDirectionSwapped(fromAP, toAP, gateAP) ==
    IF toAP = gateAP
    THEN IF fromAP # "" THEN directionArriving ELSE directionLeaving
    ELSE IF fromAP = gateAP THEN directionLeaving ELSE directionUnknown

\* handleDeviceRoamed's direction
RoamDirection(fromAP, toAP, gateAP) ==
    IF toAP = gateAP
    THEN IF fromAP # "" THEN directionLeaving ELSE directionArriving
    ELSE IF fromAP = gateAP THEN directionArriving ELSE directionUnknown

\* whether handleDeviceConnected hands the device to checkAndOpenGate
ConnectOpensGate(toAP, gateAP) == toAP = gateAP

\* RoamOpensGate for every roam
RoamAlwaysOpens(fromAP, toAP, gateAP) == TRUE

\* whether handleDeviceRoamed hands the device to checkAndOpenGate
RoamOpensGate(fromAP, toAP, gateAP) == toAP = gateAP \/ fromAP = gateAP

\* A handler's result: the gate controller's result, with the event the
\* handler classified, its direction, and whether it invoked the controller.
Handled(kind, direction, entry, invoked, g) ==
    [state |-> g.state, log |-> entry \o g.log, calls |-> g.calls, ops |-> g.ops,
     event |-> kind, direction |-> direction, invoked |-> invoked]

handleDeviceConnected(state, toAP, fromAP, cfg, clock, actOK, logOK) ==
    LET direction == ConnectDirection(toAP, cfg.GateAPMAC)
        entry == LogEvent(cfg, LogEntry(state, "connected", direction, fromAP, toAP, FALSE),
                          logOK)
        invoked == ConnectOpensGate(toAP, cfg.GateAPMAC)
    IN Handled("connected", direction, entry, invoked,
               IF invoked
               THEN checkAndOpenGate(state, direction, cfg, clock, actOK, logOK)
               ELSE NoGate(state))

handleDeviceRoamed(state, fromAP, toAP, cfg, clock, actOK, logOK) ==
    LET direction == RoamDirection(fromAP, toAP, cfg.GateAPMAC)
        entry == LogEvent(cfg, LogEntry(state, "roamed", direction, fromAP, toAP, FALSE),
                          logOK)
        invoked == RoamOpensGate(fromAP, toAP, cfg.GateAPMAC)
    IN Handled("roamed", direction, entry, invoked,
               IF invoked
               THEN checkAndOpenGate(state, direction, cfg, clock, actOK, logOK)
               ELSE NoGate(state))

\* handleDeviceDisconnected treating a disconnect at the gate AP as a
\* departure
handleDeviceDisconnectedLeaving(state, cfg, logOK) ==
    LET invoked == state.CurrentAP = cfg.GateAPMAC
    IN Handled("disconnected", "",
               LogEvent(cfg, LogEntry(state, "disconnected", "", state.CurrentAP, "", FALSE),
                        logOK),
               invoked,
               IF invoked
               THEN checkAndOpenGate(state, directionLeaving, cfg, state.LastSeen, TRUE, logOK)
               ELSE NoGate(state))

\* the disconnected entry carries no Direction and no ToAP
handleDeviceDisconnected(state, cfg, logOK) ==
    Handled("disconnected", "",
            LogEvent(cfg, LogEntry(state, "disconnected", "", state.CurrentAP, "", FALSE),
                     logOK),
            FALSE, NoGate(state))

\* no handler ran
NoEvent(state) ==
    Handled("none", "", <<>>, FALSE, NoGate(state))

----------------------------------------------------------------------------
(* The poll cycle *)

\* pollUniFi's map of the clients by normalized MAC; a later client of the
\* list replaces an earlier one with the same normalized MAC
RECURSIVE currentlyConnected(_)
currentlyConnected(clients) ==
    IF clients = <<>> THEN <<>>
    ELSE LET c == clients[Len(clients)]
             rest == currentlyConnected(SubSeq(clients, 1, Len(clients) - 1))
         IN (ToUpper(c.MAC) :> c) @@ rest

\* ConnectCase with the threshold itself counted as fresh
ConnectCaseInclusive(newAP, uptime, gateAP) ==
    IF newAP = gateAP /\ uptime <= FreshUptime THEN "fresh_gate"
    ELSE IF newAP # gateAP THEN "non_gate"
    ELSE "stationary"

\* the branch of pollUniFi's loop body taken by a connected client of a
\* device that was not connected
ConnectCase(newAP, uptime, gateAP) ==
    IF newAP = gateAP /\ uptime < FreshUptime THEN "fresh_gate"
    ELSE IF newAP # gateAP THEN "non_gate"
    ELSE "stationary"

\* MarkConnected without state.IsConnected = true
MarkConnectedStale(state, newAP, clock) ==
    [state EXCEPT !.CurrentAP = newAP, !.LastSeen = clock]

\* "Update state" of a device found in the snapshot
MarkConnected(state, newAP, clock) ==
    [state EXCEPT !.CurrentAP = newAP, !.IsConnected = TRUE, !.LastSeen = clock]

\* "Update state" of a device that disconnected
MarkDisconnected(state) ==
    [state EXCEPT !.PreviousAP = state.CurrentAP, !.CurrentAP = "", !.IsConnected = FALSE]

\* pollUniFi's loop body for one tracked device: classify, run the handler,
\* update the DeviceState and send the row to the table
pollDevice(mac, state, connected, cfg, clock, actOK, logOK) ==
    IF mac \in DOMAIN connected
    THEN LET client == connected[mac]
             newAP == client.AP_MAC
             case == IF ~state.IsConnected
                     THEN ConnectCase(newAP, client.Uptime, cfg.GateAPMAC)
                     ELSE IF state.CurrentAP # newAP THEN "roam" ELSE "same"
             h == CASE case \in {"fresh_gate", "non_gate"} ->
                         handleDeviceConnected(state, newAP, "nowhere", cfg, clock, actOK, logOK)
                    [] case = "roam" ->
                         handleDeviceRoamed(state, state.CurrentAP, newAP, cfg, clock, actOK, logOK)
                    [] OTHER -> NoEvent(state)
         IN [h EXCEPT !.state = MarkConnected(h.state, newAP, clock),
                      !.ops = h.ops \o <<[op |-> "state", mac |-> mac, ap |-> newAP, conn |-> TRUE]>>]
            @@ [case |-> case]
    ELSE IF state.IsConnected
    THEN LET h == handleDeviceDisconnected(state, cfg, logOK)
         IN [h EXCEPT !.state = MarkDisconnected(h.state),
                      !.ops = h.ops \o <<[op |-> "state", mac |-> mac, ap |-> "", conn |-> FALSE]>>]
            @@ [case |-> "disconnect"]
    ELSE NoEvent(state) @@ [case |-> "absent"]

\* the table after every device's statements (devices write disjoint rows)
RECURSIVE ApplyDevices(_, _, _, _)
ApplyDevices(table, macs, eff, clock) ==
    IF macs = {} THEN table
    ELSE LET m == CHOOSE x \in macs : TRUE
         IN ApplyDevices(ApplyOps(table, eff[m].ops, clock), macs \ {m}, eff, clock)

\* what a poll cycle did for one device, as observed from outside
\* (logOK: whether its log writes could succeed)
Observed(e, logOK) ==
    [case |-> e.case, event |-> e.event, direction |-> e.direction,
     invoked |-> e.invoked, calls |-> e.calls, log |-> e.log, logOK |-> logOK]

NoCycle ==
    [case |-> "absent", event |-> "none", direction |-> "", invoked |-> FALSE,
     calls |-> <<>>, log |-> <<>>, logOK |-> TRUE]

\* the trigger controller's history of one device: when it was last invoked
\* and with which OpenGate calls, and when OpenGate succeeded the last time
\* and the time before
NoHist ==
    [lastAt |-> ZeroTime, lastCalls |-> <<>>, openAt |-> ZeroTime, prevOpenAt |-> ZeroTime]

Record(h, e, clock) ==
    IF ~e.invoked THEN h
    ELSE [lastAt |-> clock, lastCalls |-> e.calls,
          openAt |-> IF "ok" \in Range(e.calls) THEN clock ELSE h.openAt,
          prevOpenAt |-> IF "ok" \in Range(e.calls) THEN h.openAt ELSE h.prevOpenAt]

\* pollUniFi with one cooldown for all devices: every device is checked
\* against the latest trigger of any device
pollUniFiSharedCooldown(clients, actOK, logOK) ==
    LET connected == currentlyConnected(clients)
        latest == CHOOSE t \in {deviceStates[m].LastGateTrigger : m \in DOMAIN deviceStates} \cup {ZeroTime} :
                     \A m \in DOMAIN deviceStates : t >= deviceStates[m].LastGateTrigger
        eff == [m \in DOMAIN deviceStates |->
                   LET e == pollDevice(m, [deviceStates[m] EXCEPT !.LastGateTrigger = latest],
                                       connected, config, now, actOK[m], logOK[m])
                   IN IF e.calls = <<>>
                      THEN [e EXCEPT !.state.LastGateTrigger = deviceStates[m].LastGateTrigger]
                      ELSE e]
    IN /\ deviceStates' = [m \in DOMAIN deviceStates |-> eff[m].state]
       /\ db' = ApplyDevices(db, DOMAIN deviceStates, eff, now)
       /\ cycle' = [m \in DOMAIN deviceStates |-> Observed(eff[m], logOK[m])]
       /\ hist' = [m \in DOMAIN hist |->
                      IF m \in DOMAIN deviceStates THEN Record(hist[m], eff[m], now)
                      ELSE hist[m]]
       /\ lastSnapshot' = <<clients>>
       /\ replayed' = (lastSnapshot = <<clients>>)

\* pollUniFi with a snapshot obtained: clients is the list GetActiveClients
\* returned, actOK[m] whether OpenGate succeeds for m, logOK[m] whether the
\* event and the gate entries of m can be written
pollUniFi(clients, actOK, logOK) ==
    LET connected == currentlyConnected(clients)
        eff == [m \in DOMAIN deviceStates |->
                   pollDevice(m, deviceStates[m], connected, config, now, actOK[m], logOK[m])]
    IN /\ deviceStates' = [m \in DOMAIN deviceStates |-> eff[m].state]
       /\ db' = ApplyDevices(db, DOMAIN deviceStates, eff, now)
       /\ cycle' = [m \in DOMAIN deviceStates |-> Observed(eff[m], logOK[m])]
       /\ hist' = [m \in DOMAIN hist |->
                      IF m \in DOMAIN deviceStates THEN Record(hist[m], eff[m], now)
                      ELSE hist[m]]
       /\ lastSnapshot' = <<clients>>
       /\ replayed' = (lastSnapshot = <<clients>>)

----------------------------------------------------------------------------
(* Inputs of a poll cycle *)

\* The controller reports a tracked device in lower case (pollUniFi
\* normalizes it) and may report a client that is not tracked.
TrackedClient == "aa:01"
OtherClient == "AA:02"

ClientRecords(mac, aps, uptimes) == [MAC : {mac}, AP_MAC : aps, Uptime : uptimes]

\* the client lists GetActiveClients can return: the tracked device absent
\* or at one of aps with one of uptimes, the other client absent or, with
\* others, freshly at the gate AP
ClientLists(aps, uptimes, others) ==
    LET tracked == {<<>>} \cup {<<c>> : c \in ClientRecords(TrackedClient, aps, uptimes)}
        other == {<<>>} \cup
                 (IF others THEN {<<c>> : c \in ClientRecords(OtherClient, {GateAP}, {0})}
                  ELSE {})
    IN {o \o t : o \in other, t \in tracked}

Snapshots == ClientLists(APs, Uptimes, FALSE)

\* the device moving between the gate AP and one interior AP, always fresh
GateSnapshots == ClientLists({GateAP, "AP1"}, {0}, FALSE)

\* what the cycle does for each device when every call it makes succeeds
Probe(clients) ==
    [m \in DOMAIN deviceStates |->
        pollDevice(m, deviceStates[m], currentlyConnected(clients), config, now, TRUE, TRUE)]

\* An outcome the cycle never asks for is not an input: OpenGate's outcome
\* when OpenGate is not called, a log write's outcome when nothing is written.
ActOutcomes(probe) ==
    {f \in [DOMAIN probe -> BOOLEAN] : \A m \in DOMAIN probe : probe[m].calls = <<>> => f[m]}

LogOutcomes(probe) ==
    {f \in [DOMAIN probe -> BOOLEAN] : \A m \in DOMAIN probe : probe[m].log = <<>> => f[m]}

----------------------------------------------------------------------------
(* Actions *)

\* one tick of the poll loop whose snapshot fetch succeeds, the snapshot
\* drawn from snapshots
PollCycle(snapshots) ==
    /\ isMonitoring
    /\ \E clients \in snapshots :
         \E actOK \in ActOutcomes(Probe(clients)), logOK \in LogOutcomes(Probe(clients)) :
            pollUniFi(clients, actOK, logOK)
    /\ UNCHANGED <<now, config, isMonitoring, lifeVars, authVars, request, ioVars>>

Poll == PollCycle(Snapshots)

PollGate == PollCycle(GateSnapshots)

\* time passes, up to limit clock steps
Advance(limit) ==
    /\ now + ClockStep <= limit * ClockStep
    /\ now' = now + ClockStep
    /\ UNCHANGED <<config, isMonitoring, deviceStates, db, lastSnapshot, replayed, cycle, hist,
                   lifeVars, authVars, request, ioVars>>

Tick == Advance(MaxSteps)

TickPoll == Advance(MaxPollSteps)

----------------------------------------------------------------------------
(* The lifecycle and the retry state where a specification leaves them out *)

\* The goroutine of a StartMonitoring call that began a session.  pc: "load"
\* before loadDeviceStates, "panic" stopped by the panic of time.NewTicker,
\* "poll" inside pollUniFi, "enter" about to execute the select statement,
\* "parked" blocked in it, "done" returned, "spawned" not yet run; ch: the
\* channel the select it is blocked in evaluated.
LoopRecord(pc, ch) == [pc |-> pc, ch |-> ch]

\* one StartMonitoring call has begun the session; its loop waits in select
RunningSession ==
    /\ stopMonitoring = 1
    /\ closes = [c \in 0..1 |-> 0]
    /\ loops = <<LoopRecord("parked", 1)>>
    /\ starts = 1
    /\ stops = 0

\* the zero values of the App struct's retry fields
NoAuthRetries ==
    /\ authRetryCount = 0
    /\ lastAuthAttempt = ZeroTime
    /\ authRetryBackoff = {}
    /\ authTrail = <<>>

\* no call on the controller is recorded; the controller may answer a call
\* in any way
NoCalls ==
    /\ io = <<>>
    /\ controller = "flaky"
    /\ inFlight = {}

\* no device request has been served
NoRequest ==
    [seq |-> 0, op |-> "none", mac |-> "", name |-> "", enabled |-> FALSE, status |-> 0]

----------------------------------------------------------------------------
(* A monitoring session on a new database: the registry as StartMonitoring  *)
(* seeds it, then poll cycles                                               *)

Device(mac, name, enabled) == [MAC |-> mac, Name |-> name, Enabled |-> enabled]

\* the configured devices: one enabled, one disabled
InitDevices == <<Device(TrackedClient, "car", TRUE), Device(OtherClient, "bike", FALSE)>>

\* unifi.poll_interval where no settings update has changed it, in seconds
DefaultPollInterval == 1

Configs(durations) ==
    [GateAPMAC : {GateAP}, OpenDuration : durations, LogActivity : BOOLEAN,
     PollInterval : {DefaultPollInterval}, Devices : {InitDevices}]

\* the state StartMonitoring leaves on a new database
Started(configs) ==
    /\ now = 0
    /\ config \in configs
    /\ isMonitoring = TRUE
    /\ db = <<>>
    /\ deviceStates = loadDeviceStates(config.Devices, db, <<>>)
    /\ lastSnapshot = <<>>
    /\ replayed = FALSE
    /\ cycle = [m \in DOMAIN deviceStates |-> NoCycle]
    /\ hist = [m \in MACs |-> NoHist]
    /\ RunningSession
    /\ NoAuthRetries
    /\ request = NoRequest
    /\ NoCalls

\* every snapshot, a short time
InitPoll == Started(Configs({0, 1}))

NextPoll == Poll \/ TickPoll

SpecPoll == InitPoll /\ [][NextPoll]_vars

\* the device moving between the gate AP and an interior AP, a longer time
InitGate == Started(Configs(OpenDurations))

NextGate == PollGate \/ Tick

SpecGate == InitGate /\ [][NextGate]_vars

\* two enabled devices: both are tracked
PairDevices == <<Device(TrackedClient, "car", TRUE), Device(OtherClient, "bike", TRUE)>>

\* each of the car and the bike absent or freshly at the gate AP
PairSnapshots == ClientLists({GateAP}, {0}, TRUE)

PollPair == PollCycle(PairSnapshots)

InitPair ==
    Started([GateAPMAC : {GateAP}, OpenDuration : {1}, LogActivity : {TRUE},
             PollInterval : {DefaultPollInterval}, Devices : {PairDevices}])

NextPair == PollPair \/ TickPoll

SpecPair == InitPair /\ [][NextPair]_vars

\* Monitoring started on the table an earlier session left: the device's row
\* holds any AP, connected or not, triggered or not, and any AP is the gate AP.
LoadedDevices == <<Device(ToUpper(TrackedClient), "car", TRUE), Device(OtherClient, "bike", FALSE)>>

LoadedRows ==
    [current_ap : APs, last_seen : {0}, is_connected : BOOLEAN,
     last_gate_trigger : {ZeroTime, 0}]

InitLoaded ==
    /\ now = ClockStep
    /\ config \in [GateAPMAC : APs, OpenDuration : {1}, LogActivity : BOOLEAN,
                   PollInterval : {DefaultPollInterval}, Devices : {LoadedDevices}]
    /\ isMonitoring = TRUE
    /\ \E row \in LoadedRows : db = (ToUpper(TrackedClient) :> row)
    /\ deviceStates = loadDeviceStates(config.Devices, db, <<>>)
    /\ lastSnapshot = <<>>
    /\ replayed = FALSE
    /\ cycle = [m \in DOMAIN deviceStates |-> NoCycle]
    /\ hist = [m \in MACs |-> NoHist]
    /\ RunningSession
    /\ NoAuthRetries
    /\ request = NoRequest
    /\ NoCalls

NextLoaded == Poll

SpecLoaded == InitLoaded /\ [][NextLoaded]_vars

----------------------------------------------------------------------------
(* The device list of the configuration *)

\* the position of the first device whose MAC is exactly mac, 0 if none
IndexOfMAC(devices, mac) ==
    IF \E i \in DOMAIN devices : devices[i].MAC = mac
    THEN CHOOSE i \in DOMAIN devices :
            /\ devices[i].MAC = mac
            /\ \A j \in DOMAIN devices : devices[j].MAC = mac => i <= j
    ELSE 0

\* Config.AddDevice without its search for the MAC
AddDeviceUnchecked(devices, mac, name) ==
    [err |-> FALSE, devices |-> Append(devices, Device(mac, name, TRUE))]

\* Config.AddDevice
AddDevice(devices, mac, name) ==
    IF IndexOfMAC(devices, mac) # 0
    THEN [err |-> TRUE, devices |-> devices]
    ELSE [err |-> FALSE, devices |-> Append(devices, Device(mac, name, TRUE))]

\* Config.UpdateDevice
UpdateDevice(devices, mac, name, enabled) ==
    LET i == IndexOfMAC(devices, mac)
    IN IF i = 0
       THEN [err |-> TRUE, devices |-> devices]
       ELSE [err |-> FALSE,
             devices |-> [devices EXCEPT ![i] = [@ EXCEPT !.Name = name, !.Enabled = enabled]]]

\* Config.RemoveDevice
RemoveDevice(devices, mac) ==
    LET i == IndexOfMAC(devices, mac)
    IN IF i = 0
       THEN [err |-> TRUE, devices |-> devices]
       ELSE [err |-> FALSE,
             devices |-> SubSeq(devices, 1, i - 1) \o SubSeq(devices, i + 1, Len(devices))]

----------------------------------------------------------------------------
(* The device requests of the dashboard *)

\* the MACs a request can name: both spellings of the tracked device
RequestMACs == {TrackedClient, ToUpper(TrackedClient)}

\* delete(app.deviceStates, mac)
DeleteState(states, mac) == [m \in DOMAIN states \ {mac} |-> states[m]]

\* app.deviceStates[mac] = state
PutState(states, mac, state) == (mac :> state) @@ DeleteState(states, mac)

\* the observation of the last cycle, over the keys of registry states
Observing(states) ==
    [m \in DOMAIN states |-> IF m \in DOMAIN cycle THEN cycle[m] ELSE NoCycle]

\* A handler's effect.  devices: the device list after the config method;
\* status: the HTTP status; states: the registry after the handler.
Respond(op, mac, name, enabled, status, devices, states) ==
    /\ request.seq < MaxRequests
    /\ request' = [seq |-> request.seq + 1, op |-> op, mac |-> mac, name |-> name,
                   enabled |-> enabled, status |-> status]
    /\ config' = [config EXCEPT !.Devices = devices]
    /\ deviceStates' = states
    /\ cycle' = Observing(states)
    /\ UNCHANGED <<now, isMonitoring, db, lastSnapshot, replayed, hist, lifeVars, authVars,
                   ioVars>>

\* AddDeviceHandler.  saveOK: whether config.SaveConfig succeeds.
AddDeviceHandler ==
    \E mac \in RequestMACs, name \in {"car"}, saveOK \in BOOLEAN :
        LET r == AddDevice(config.Devices, mac, name)
            normalizedMAC == ToUpper(mac)
        IN IF r.err THEN Respond("add", mac, name, TRUE, 400, config.Devices, deviceStates)
           ELSE IF ~saveOK THEN Respond("add", mac, name, TRUE, 500, r.devices, deviceStates)
           ELSE Respond("add", mac, name, TRUE, 200, r.devices,
                        IF isMonitoring
                        THEN PutState(deviceStates, normalizedMAC,
                                      DeviceState(normalizedMAC, name))
                        ELSE deviceStates)

\* UpdateDeviceHandler: the registry is looked up under the MAC of the URL
UpdateDeviceHandler ==
    \E mac \in RequestMACs, name \in {"car"}, enabled \in BOOLEAN, saveOK \in BOOLEAN :
        LET r == UpdateDevice(config.Devices, mac, name, enabled)
        IN IF r.err THEN Respond("update", mac, name, enabled, 404, config.Devices, deviceStates)
           ELSE IF ~saveOK THEN Respond("update", mac, name, enabled, 500, r.devices, deviceStates)
           ELSE Respond("update", mac, name, enabled, 200, r.devices,
                        IF mac \in DOMAIN deviceStates
                        THEN IF ~enabled THEN DeleteState(deviceStates, mac)
                             ELSE [deviceStates EXCEPT ![mac].Name = name]
                        ELSE IF enabled /\ isMonitoring
                        THEN PutState(deviceStates, mac, DeviceState(mac, name))
                        ELSE deviceStates)

\* DeleteDeviceHandler: the registry entry is deleted under the MAC of the URL
DeleteDeviceHandler ==
    \E mac \in RequestMACs, saveOK \in BOOLEAN :
        LET r == RemoveDevice(config.Devices, mac)
        IN IF r.err THEN Respond("delete", mac, "", FALSE, 404, config.Devices, deviceStates)
           ELSE IF ~saveOK THEN Respond("delete", mac, "", FALSE, 500, r.devices, deviceStates)
           ELSE Respond("delete", mac, "", FALSE, 200, r.devices, DeleteState(deviceStates, mac))

----------------------------------------------------------------------------
(* StopMonitoring *)

\* StopMonitoring without its isMonitoring check
StopMonitoringUnchecked ==
    /\ stops < MaxStops
    /\ stops' = stops + 1
    /\ closes' = [closes EXCEPT ![stopMonitoring] = @ + 1]
    /\ isMonitoring' = FALSE
    /\ UNCHANGED <<now, config, deviceStates, db, lastSnapshot, replayed, cycle, hist,
                   stopMonitoring, loops, starts, authVars, request, ioVars>>

\* StopMonitoring, under monitoringMu
StopMonitoring ==
    /\ stops < MaxStops
    /\ stops' = stops + 1
    /\ IF isMonitoring
       THEN /\ closes' = [closes EXCEPT ![stopMonitoring] = @ + 1]
            /\ isMonitoring' = FALSE
       ELSE UNCHANGED <<closes, isMonitoring>>
    /\ UNCHANGED <<now, config, deviceStates, db, lastSnapshot, replayed, cycle, hist,
                   stopMonitoring, loops, starts, authVars, request, ioVars>>

----------------------------------------------------------------------------
(* Device requests during and after a monitoring session *)

\* the tracked device at the gate AP, fresh or not
CrudSnapshots == ClientLists({GateAP}, Uptimes, FALSE)

PollCrud == PollCycle(CrudSnapshots)

\* the tracked device configured in lower case or in upper case
InitCrud ==
    Started([GateAPMAC : {GateAP}, OpenDuration : {1}, LogActivity : {TRUE},
             PollInterval : {DefaultPollInterval}, Devices : {InitDevices, LoadedDevices}])

NextCrud ==
    \/ AddDeviceHandler
    \/ UpdateDeviceHandler
    \/ DeleteDeviceHandler
    \/ PollCrud
    \/ StopMonitoring

SpecCrud == InitCrud /\ [][NextCrud]_vars

----------------------------------------------------------------------------
(* StartMonitoring and its goroutine *)

\* make(chan bool): a channel no session has used
NewChannel == Len(loops) + 1

\* the locked section of StartMonitoring past the isMonitoring check: the
\* flag, a new stop channel, a new empty registry; the caller goes on to
\* loadDeviceStates
BeginSession ==
    /\ isMonitoring' = TRUE
    /\ stopMonitoring' = NewChannel
    /\ closes' = (NewChannel :> 0) @@ closes
    /\ deviceStates' = <<>>
    /\ cycle' = <<>>
    /\ loops' = Append(loops, LoopRecord("load", 0))

\* StartMonitoring without its isMonitoring check
StartMonitoringUnchecked ==
    /\ starts < MaxStarts
    /\ starts' = starts + 1
    /\ BeginSession
    /\ UNCHANGED <<now, config, db, lastSnapshot, replayed, hist, stops, authVars, request, ioVars>>

\* StartMonitoring, up to the release of monitoringMu
StartMonitoring ==
    /\ starts < MaxStarts
    /\ starts' = starts + 1
    /\ IF isMonitoring
       THEN UNCHANGED <<isMonitoring, stopMonitoring, closes, deviceStates, cycle, loops>>
       ELSE BeginSession
    /\ UNCHANGED <<now, config, db, lastSnapshot, replayed, hist, stops, authVars, request, ioVars>>

\* what a step of goroutine i leaves alone besides the registry and the table
LoopFrame == <<now, config, isMonitoring, stopMonitoring, closes, starts, stops, authVars, request, ioVars>>

\* a ticker created before the first poll cycle is awaited first
NewTickerAwaited(interval) == IF interval >= 1 THEN "enter" ELSE "panic"

\* time.NewTicker(d) panics unless d is positive; d is interval seconds
NewTicker(interval) == IF interval >= 1 THEN "poll" ELSE "panic"

\* app.loadDeviceStates(), writing into the registry app.deviceStates holds,
\* then the ticker of the session
LoadStates(i) ==
    /\ loops[i].pc = "load"
    /\ deviceStates' = loadDeviceStates(config.Devices, db, deviceStates)
    /\ cycle' = Observing(deviceStates')
    /\ loops' = [loops EXCEPT ![i].pc = NewTicker(config.PollInterval)]
    /\ UNCHANGED <<db, lastSnapshot, replayed, hist>>
    /\ UNCHANGED LoopFrame

\* app.pollUniFi() of goroutine i with a snapshot obtained, on the registry
\* app.deviceStates holds
LoopPoll(i, snapshots) ==
    /\ loops[i].pc = "poll"
    /\ \E clients \in snapshots :
         \E actOK \in ActOutcomes(Probe(clients)), logOK \in LogOutcomes(Probe(clients)) :
            pollUniFi(clients, actOK, logOK)
    /\ loops' = [loops EXCEPT ![i].pc = "enter"]
    /\ UNCHANGED LoopFrame

\* app.pollUniFi() of goroutine i returning early: no snapshot
PollFailed(i) ==
    /\ loops[i].pc = "poll"
    /\ loops' = [loops EXCEPT ![i].pc = "enter"]
    /\ UNCHANGED <<deviceStates, db, lastSnapshot, replayed, cycle, hist>>
    /\ UNCHANGED LoopFrame

\* goroutine i moves to pc, blocked on channel ch if it blocks
LoopMove(i, pc, ch) ==
    /\ loops' = [loops EXCEPT ![i] = LoopRecord(pc, ch)]
    /\ UNCHANGED <<deviceStates, db, lastSnapshot, replayed, cycle, hist>>
    /\ UNCHANGED LoopFrame

\* select entered with a tick pending in ticker.C: the tick case may run,
\* whatever the stop channel holds
SelectTick(i) ==
    /\ loops[i].pc = "enter"
    /\ LoopMove(i, "poll", 0)

\* select entered with the channel app.stopMonitoring holds closed
SelectStop(i) ==
    /\ loops[i].pc = "enter"
    /\ closes[stopMonitoring] > 0
    /\ LoopMove(i, "done", 0)

\* select entered with no case ready: the goroutine blocks on ticker.C and
\* on the channel app.stopMonitoring held when the select was entered
SelectPark(i) ==
    /\ loops[i].pc = "enter"
    /\ closes[stopMonitoring] = 0
    /\ LoopMove(i, "parked", stopMonitoring)

\* the ticker fires while the goroutine is blocked
ParkedTick(i) ==
    /\ loops[i].pc = "parked"
    /\ closes[loops[i].ch] = 0
    /\ LoopMove(i, "poll", 0)

\* the channel the goroutine is blocked on is closed
ParkedStop(i) ==
    /\ loops[i].pc = "parked"
    /\ closes[loops[i].ch] > 0
    /\ LoopMove(i, "done", 0)

\* the tracked device absent, or freshly at the gate AP
LifeSnapshots == ClientLists({GateAP}, {0}, FALSE)

\* a step of goroutine i
LoopStep(i) ==
    \/ LoadStates(i)
    \/ LoopPoll(i, LifeSnapshots)
    \/ PollFailed(i)
    \/ SelectTick(i)
    \/ SelectStop(i)
    \/ SelectPark(i)
    \/ ParkedTick(i)
    \/ ParkedStop(i)

\* the process before its first StartMonitoring call, on a new database, the
\* tracked device configured in lower case or in upper case
InitLife ==
    /\ now = 0
    /\ config \in [GateAPMAC : {GateAP}, OpenDuration : {1}, LogActivity : {FALSE},
                   PollInterval : {DefaultPollInterval}, Devices : {InitDevices, LoadedDevices}]
    /\ isMonitoring = FALSE
    /\ db = <<>>
    /\ deviceStates = <<>>
    /\ lastSnapshot = <<>>
    /\ replayed = FALSE
    /\ cycle = <<>>
    /\ hist = [m \in MACs |-> NoHist]
    /\ stopMonitoring = 0
    /\ closes = [c \in {0} |-> 0]
    /\ loops = <<>>
    /\ starts = 0
    /\ stops = 0
    /\ NoAuthRetries
    /\ request = NoRequest
    /\ NoCalls

NextLife ==
    \/ StartMonitoring
    \/ StopMonitoring
    \/ \E i \in 1..Len(loops) : LoopStep(i)

SpecLife == InitLife /\ [][NextLife]_vars

\* Fair scheduling: a goroutine that can take a step takes one, the ticker
\* keeps firing, and a select that finds the stop case ready again and again
\* chooses it at some point (select picks among its ready cases at random).
LoopRuns(i) == i <= Len(loops) /\ LoopStep(i)

LoopStops(i) == i <= Len(loops) /\ SelectStop(i)

SpecLifeFair ==
    SpecLife /\ \A i \in 1..MaxStarts : WF_vars(LoopRuns(i)) /\ SF_vars(LoopStops(i))

----------------------------------------------------------------------------
(* Setup and settings updates *)

\* the poll_interval values a settings request carries: the JSON field is an
\* int the handler stores as it is, zero when the field is left out
PollIntervals == {-1, 0, 1, 2}

\* a panic in a goroutine nothing recovers from ends the process
Alive == \A i \in 1..Len(loops) : loops[i].pc # "panic"

\* go app.StartMonitoring(): a goroutine that has not yet run
Spawn ==
    /\ starts < MaxStarts
    /\ starts' = starts + 1
    /\ loops' = Append(loops, LoopRecord("spawned", 0))

\* SetupAPIHandler: the configuration of the request with the poll interval
\* set to one second, then go app.StartMonitoring()
SetupAPIHandler ==
    /\ Alive
    /\ \E duration \in {0, 1} :
          config' = [config EXCEPT !.OpenDuration = duration, !.PollInterval = 1]
    /\ Spawn
    /\ UNCHANGED <<now, isMonitoring, stopMonitoring, closes, deviceStates, cycle, db,
                   lastSnapshot, replayed, hist, stops, authVars, request, ioVars>>

\* UpdateSettingsHandler: the configuration of the request, then, with a
\* session running, StopMonitoring() and go app.StartMonitoring()
UpdateSettingsHandler ==
    /\ Alive
    /\ \E interval \in PollIntervals, duration \in {0, 1}, logActivity \in BOOLEAN :
          config' = [config EXCEPT !.PollInterval = interval,
                                   !.OpenDuration = duration,
                                   !.LogActivity = logActivity]
    /\ IF isMonitoring
       THEN /\ stops < MaxStops
            /\ stops' = stops + 1
            /\ closes' = [closes EXCEPT ![stopMonitoring] = @ + 1]
            /\ isMonitoring' = FALSE
            /\ Spawn
       ELSE UNCHANGED <<isMonitoring, closes, loops, starts, stops>>
    /\ UNCHANGED <<now, stopMonitoring, deviceStates, cycle, db, lastSnapshot, replayed,
                   hist, authVars, request, ioVars>>

\* the spawned goroutine i runs StartMonitoring up to the release of
\* monitoringMu: it returns with a session running, and begins one otherwise
StartSpawned(i) ==
    /\ loops[i].pc = "spawned"
    /\ IF isMonitoring
       THEN /\ loops' = [loops EXCEPT ![i].pc = "done"]
            /\ UNCHANGED <<isMonitoring, stopMonitoring, closes, deviceStates, cycle>>
       ELSE /\ isMonitoring' = TRUE
            /\ stopMonitoring' = i
            /\ closes' = (i :> 0) @@ closes
            /\ deviceStates' = <<>>
            /\ cycle' = <<>>
            /\ loops' = [loops EXCEPT ![i].pc = "load"]
    /\ UNCHANGED <<now, config, db, lastSnapshot, replayed, hist, starts, stops, authVars,
                   request, ioVars>>

\* the process before setup: the default configuration, no session
InitSettings ==
    /\ now = 0
    /\ config \in [GateAPMAC : {GateAP}, OpenDuration : {1}, LogActivity : {FALSE},
                   PollInterval : {DefaultPollInterval}, Devices : {InitDevices}]
    /\ isMonitoring = FALSE
    /\ db = <<>>
    /\ deviceStates = <<>>
    /\ lastSnapshot = <<>>
    /\ replayed = FALSE
    /\ cycle = <<>>
    /\ hist = [m \in MACs |-> NoHist]
    /\ stopMonitoring = 0
    /\ closes = [c \in {0} |-> 0]
    /\ loops = <<>>
    /\ starts = 0
    /\ stops = 0
    /\ NoAuthRetries
    /\ request = NoRequest
    /\ NoCalls

\* the goroutines of a process that has not panicked
Goroutines == IF Alive THEN 1..Len(loops) ELSE {}

NextSettings ==
    \/ SetupAPIHandler
    \/ UpdateSettingsHandler
    \/ \E i \in Goroutines : StartSpawned(i) \/ LoopStep(i)

SpecSettings == InitSettings /\ [][NextSettings]_vars

----------------------------------------------------------------------------
(* Re-authentication with backoff *)

\* 64 * time.Second
MaxBackoff == Seconds(64)

\* a backoff that grows by one second per failure
BackoffLinear(n) == Seconds(n)

\* the backoff after the n-th consecutive failure:
\* time.Duration(1<<uint(n-1)) * time.Second, at most 64 * time.Second
Backoff(n) ==
    LET b == Mul(Shl(FromInt(1), n - 1), SecondWord)
    IN IF Less(MaxBackoff, b) THEN MaxBackoff ELSE b

\* the backoff check of reauthenticateWithBackoff
BackoffInEffect == Less(Since(lastAuthAttempt, now), authRetryBackoff)

\* reauthenticateWithBackoff without its backoff check
reauthenticateAlways(loginOK) ==
    /\ lastAuthAttempt' = now
    /\ IF ~loginOK
       THEN /\ authRetryCount' = authRetryCount + 1
            /\ authRetryBackoff' = Backoff(authRetryCount + 1)
       ELSE /\ authRetryCount' = 0
            /\ authRetryBackoff' = {}

\* reauthenticateWithBackoff.  loginOK: whether UniFiClient.Login succeeds.
reauthenticateWithBackoff(loginOK) ==
    IF BackoffInEffect
    THEN UNCHANGED <<authRetryCount, lastAuthAttempt, authRetryBackoff>>
    ELSE /\ lastAuthAttempt' = now
         /\ IF ~loginOK
            THEN /\ authRetryCount' = authRetryCount + 1
                 /\ authRetryBackoff' = Backoff(authRetryCount + 1)
            ELSE /\ authRetryCount' = 0
                 /\ authRetryBackoff' = {}

\* what a re-authentication leaves alone
AuthFrame ==
    <<config, isMonitoring, deviceStates, db, lastSnapshot, replayed, cycle, hist, lifeVars,
      request, ioVars>>

\* a poll cycle meets an authentication error and re-authenticates
Reauthenticate ==
    /\ authRetryCount < MaxRetries
    /\ \E loginOK \in BOOLEAN : reauthenticateWithBackoff(loginOK)
    /\ UNCHANGED <<now, authTrail>>
    /\ UNCHANGED AuthFrame

\* the same, the outcome of each login attempt recorded
ReauthenticateTraced ==
    /\ Len(authTrail) < MaxAttempts
    /\ \E loginOK \in BOOLEAN :
          /\ reauthenticateWithBackoff(loginOK)
          /\ authTrail' = IF BackoffInEffect THEN authTrail
                          ELSE Append(authTrail, IF loginOK THEN "ok" ELSE "fail")
    /\ UNCHANGED now
    /\ UNCHANGED AuthFrame

\* seconds pass, the clock staying within limit
Elapse(seconds, limit) ==
    /\ now + seconds <= limit
    /\ now' = now + seconds
    /\ UNCHANGED authVars
    /\ UNCHANGED AuthFrame

InitAuth ==
    Started([GateAPMAC : {GateAP}, OpenDuration : {1}, LogActivity : {FALSE},
             PollInterval : {DefaultPollInterval}, Devices : {InitDevices}])

\* attempts spread over a few seconds
ElapseSecond == Elapse(1, MaxAuthSeconds)

NextAuth == ReauthenticateTraced \/ ElapseSecond

SpecAuth == InitAuth /\ [][NextAuth]_vars

\* a long outage: attempts a full backoff apart, or closer
ElapseBackoff == Elapse(64, 64 * MaxRetries)

NextBackoff == Reauthenticate \/ ElapseBackoff

SpecBackoff == InitAuth /\ [][NextBackoff]_vars

----------------------------------------------------------------------------
(* A poll cycle with its snapshot fetch *)

\* An error is its message, as the sequence of its parts; nil is the empty
\* sequence.
Nil == <<>>

\* the errors GetActiveClients returns: no session, and a failed request as
\* the controller or the network reports it
FetchErrors ==
    {<<"not logged in">>,
     <<"failed to get clients:", "Unauthorized">>,
     <<"failed to get clients:", "connection refused">>}

\* strings.ToLower
ToLower(s) ==
    CASE s = "Unauthorized" -> "unauthorized"
      [] OTHER -> s

\* isAuthError matching the message as it is spelled
isAuthErrorExact(err) ==
    /\ err # Nil
    /\ \E i \in 1..Len(err) :
          err[i] \in {"401", "unauthorized", "not logged in", "authentication", "invalid token"}

\* isAuthError with every error taken for an authentication error
isAuthErrorAlways(err) == err # Nil

\* isAuthError: the lower-cased message holds one of the markers
isAuthError(err) ==
    /\ err # Nil
    /\ \E i \in 1..Len(err) :
          ToLower(err[i]) \in {"401", "unauthorized", "not logged in", "authentication",
                               "invalid token"}

\* what the controller can answer to GetActiveClients: anything while it is
\* flaky, an authentication error while it is down or the client's session
\* has expired
FetchResults ==
    CASE controller = "flaky" -> {Nil} \cup FetchErrors
      [] controller = "down" -> {<<"failed to get clients:", "Unauthorized">>}
      [] controller = "expired" -> {<<"failed to get clients:", "Unauthorized">>}
      [] OTHER -> {Nil}

\* whether Login can succeed / fail
LoginResults ==
    CASE controller = "flaky" -> BOOLEAN
      [] controller = "down" -> {FALSE}
      [] OTHER -> {TRUE}

\* what the controller answers to GetActiveClients right after a login
RetryResults == IF controller = "flaky" THEN {Nil} \cup FetchErrors ELSE {Nil}

\* the records of io: a GetActiveClients call with the error or the client
\* list it returned, a Login call with its error
Fetched(err, clients) == [call |-> "fetch", err |-> err, clients |-> clients]

LoggedIn(ok) == [call |-> "login", err |-> IF ok THEN Nil ELSE <<"failed to login:", "401">>]

\* pollUniFi returns before it takes monitoringMu: the last fetch gave err
Skip(calls, err) ==
    /\ io' = Append(calls, Fetched(err, <<>>))
    /\ UNCHANGED <<deviceStates, db, lastSnapshot, replayed, cycle, hist>>

\* pollUniFi goes on with the client list the last fetch gave, drawn from
\* snapshots
Process(calls, snapshots) ==
    \E clients \in snapshots :
       /\ io' = Append(calls, Fetched(Nil, clients))
       /\ \E actOK \in ActOutcomes(Probe(clients)), logOK \in LogOutcomes(Probe(clients)) :
             pollUniFi(clients, actOK, logOK)

\* the retry of GetActiveClients after a successful re-authentication,
\* repeated once more on an authentication error
RetryTwice(calls, snapshots) ==
    \E err \in RetryResults :
       IF err = Nil THEN Process(calls, snapshots)
       ELSE IF ~isAuthError(err) THEN Skip(calls, err)
       ELSE \E err3 \in RetryResults :
               IF err3 = Nil THEN Process(Append(calls, Fetched(err, <<>>)), snapshots)
               ELSE Skip(Append(calls, Fetched(err, <<>>)), err3)

\* the retry of GetActiveClients after a successful re-authentication
Retry(calls, snapshots) ==
    \E err \in RetryResults :
       IF err = Nil THEN Process(calls, snapshots) ELSE Skip(calls, err)

\* the session of the controller client after the cycle's calls
Session(calls) ==
    IF controller = "expired" /\ \E i \in 1..Len(calls) : calls[i] = LoggedIn(TRUE)
    THEN "healthy" ELSE controller

\* one whole pollUniFi call of the ticker loop
PollFetch(snapshots) ==
    /\ isMonitoring
    /\ LET blocked == BackoffInEffect
       IN \E err \in FetchResults :
             IF err = Nil
             THEN Process(<<>>, snapshots) /\ UNCHANGED authVars
             ELSE IF ~isAuthError(err)
             THEN Skip(<<>>, err) /\ UNCHANGED authVars
             ELSE \E loginOK \in LoginResults :
                     /\ ~loginOK => authRetryCount < MaxRetries
                     /\ reauthenticateWithBackoff(loginOK)
                     /\ UNCHANGED authTrail
                     /\ IF blocked THEN Skip(<<>>, err)
                        ELSE IF ~loginOK
                        THEN /\ io' = <<Fetched(err, <<>>), LoggedIn(FALSE)>>
                             /\ UNCHANGED <<deviceStates, db, lastSnapshot, replayed, cycle,
                                            hist>>
                        ELSE Retry(<<Fetched(err, <<>>), LoggedIn(TRUE)>>, snapshots)
    /\ controller' = Session(io')
    /\ UNCHANGED <<now, config, isMonitoring, lifeVars, request, inFlight>>

\* poll cycles against a controller that answers in any way, a few seconds
PollFlaky == PollFetch(LifeSnapshots)

ElapseShort == Elapse(1, MaxFetchSeconds)

NextFetch == PollFlaky \/ ElapseShort

SpecFetch == InitAuth /\ [][NextFetch]_vars

----------------------------------------------------------------------------
(* An outage of the controller and its end *)

\* from here on the controller accepts logins and answers the fetches of a
\* valid session; the session the client holds is not valid
Recover ==
    /\ controller = "down"
    /\ controller' = "expired"
    /\ UNCHANGED <<now, config, isMonitoring, deviceStates, db, lastSnapshot, replayed,
                   cycle, hist, lifeVars, authVars, request, io, inFlight>>

\* a second passes with a backoff in effect; with none in effect the next
\* poll cycle comes first, the ticker firing every poll interval
Wait ==
    /\ BackoffInEffect
    /\ now' = now + DefaultPollInterval
    /\ UNCHANGED authVars
    /\ UNCHANGED AuthFrame

\* a running session on a new database, the controller down
InitOutage ==
    /\ now = 0
    /\ config \in [GateAPMAC : {GateAP}, OpenDuration : {1}, LogActivity : {FALSE},
                   PollInterval : {DefaultPollInterval}, Devices : {InitDevices}]
    /\ isMonitoring = TRUE
    /\ db = <<>>
    /\ deviceStates = loadDeviceStates(config.Devices, db, <<>>)
    /\ lastSnapshot = <<>>
    /\ replayed = FALSE
    /\ cycle = [m \in DOMAIN deviceStates |-> NoCycle]
    /\ hist = [m \in MACs |-> NoHist]
    /\ RunningSession
    /\ NoAuthRetries
    /\ request = NoRequest
    /\ io = <<>>
    /\ controller = "down"
    /\ inFlight = {}

\* the poll cycles of the session
PollOutage == PollFetch(LifeSnapshots)

NextRecover == PollOutage \/ Recover \/ Wait

\* Fair scheduling: the ticker keeps firing and the loop keeps running its
\* poll cycles; time passes.
SpecRecover == InitOutage /\ [][NextRecover]_vars /\ WF_vars(PollOutage) /\ WF_vars(Wait)

----------------------------------------------------------------------------
(* Four poll cycles around one visit to the gate *)

\* the client list that shows the tracked device at the gate AP
AtGate(uptime) == <<[MAC |-> TrackedClient, AP_MAC |-> GateAP, Uptime |-> uptime]>>

\* the k-th poll cycle of the session, at one of the clock readings at: the
\* fetch succeeds with clients; io holds the fetches of the session so far
ScenarioPoll(k, at, clients) ==
    /\ isMonitoring
    /\ Len(io) = k - 1
    /\ now \in at
    /\ \E actOK \in ActOutcomes(Probe(clients)), logOK \in LogOutcomes(Probe(clients)) :
          pollUniFi(clients, actOK, logOK)
    /\ io' = Append(io, Fetched(Nil, clients))
    /\ UNCHANGED <<now, config, isMonitoring, lifeVars, authVars, request, controller,
                   inFlight>>

\* the device at the gate AP, connected for 10 seconds
Poll1 == ScenarioPoll(1, {0}, AtGate(10))

\* the same client list 30 seconds later
Poll2 == ScenarioPoll(2, {ClockStep}, AtGate(10))

\* the device absent, at some time before the third minute is over
Poll3 == ScenarioPoll(3, {t \in 0..(3 * Minute - ClockStep) : t >= 2 * ClockStep}, <<>>)

\* three minutes after the first cycle: the device back at the gate AP,
\* connected for 5 seconds
Poll4 == ScenarioPoll(4, {3 * Minute}, AtGate(5))

\* half a minute passes between two cycles, each cycle run when it is due
ScenarioTick ==
    /\ now < 3 * Minute
    /\ now = 0 => Len(io) >= 1
    /\ now = ClockStep => Len(io) >= 2
    /\ now = 3 * Minute - ClockStep => Len(io) >= 3
    /\ now' = now + ClockStep
    /\ UNCHANGED <<config, isMonitoring, deviceStates, db, lastSnapshot, replayed, cycle, hist,
                   lifeVars, authVars, request, ioVars>>

\* a session on a new database, open_duration 5 minutes
InitScenario ==
    Started([GateAPMAC : {GateAP}, OpenDuration : {5}, LogActivity : BOOLEAN,
             PollInterval : {DefaultPollInterval}, Devices : {InitDevices}])

NextScenario == Poll1 \/ Poll2 \/ Poll3 \/ Poll4 \/ ScenarioTick

SpecScenario == InitScenario /\ [][NextScenario]_vars

----------------------------------------------------------------------------
(* A poll cycle in two steps: the fetch, then the locked section *)

\* the fetches a run makes
MaxFetches == 3

\* pollUniFi of goroutine i up to monitoringMu.Lock(): GetActiveClients has
\* returned clients, no lock held; io holds the fetches of the run in the
\* order they returned, and the goroutine keeps the place of its own
FetchSnapshot(i) ==
    /\ loops[i].pc = "poll"
    /\ Len(io) < MaxFetches
    /\ \E clients \in LifeSnapshots :
          /\ io' = Append(io, Fetched(Nil, clients))
          /\ loops' = [loops EXCEPT ![i] = [pc |-> "fetched", ch |-> 0, fetch |-> Len(io) + 1]]
    /\ UNCHANGED <<now, config, isMonitoring, deviceStates, db, lastSnapshot, replayed, cycle,
                   hist, stopMonitoring, closes, starts, stops, authVars, request, controller,
                   inFlight>>

\* pollUniFi of goroutine i from monitoringMu.Lock() to its return: the
\* snapshot it fetched is applied to the registry app.deviceStates holds
CommitSnapshot(i) ==
    /\ loops[i].pc = "fetched"
    /\ LET clients == io[loops[i].fetch].clients
       IN \E actOK \in ActOutcomes(Probe(clients)), logOK \in LogOutcomes(Probe(clients)) :
             pollUniFi(clients, actOK, logOK)
    /\ loops' = [loops EXCEPT ![i] = LoopRecord("enter", 0)]
    /\ UNCHANGED LoopFrame

\* a step of goroutine i
FetchStep(i) ==
    \/ LoadStates(i)
    \/ FetchSnapshot(i)
    \/ CommitSnapshot(i)
    \/ SelectTick(i)
    \/ SelectStop(i)
    \/ SelectPark(i)
    \/ ParkedTick(i)
    \/ ParkedStop(i)

NextSequential ==
    \/ StartMonitoring
    \/ StopMonitoring
    \/ \E i \in 1..Len(loops) : FetchStep(i)

SpecSequential == InitLife /\ [][NextSequential]_vars

----------------------------------------------------------------------------
(* loadDeviceStates device by device, next to the device requests *)

\* the goroutines inside loadDeviceStates
Seeding == {i \in 1..Len(loops) : loops[i].pc = "seeding"}

\* for _, device := range app.Config.Devices: the slice is evaluated once
SeedBegin(i) ==
    /\ loops[i].pc = "load"
    /\ loops' = [loops EXCEPT ![i] = [pc |-> "seeding", ch |-> 0, devices |-> config.Devices,
                                      next |-> 1]]
    /\ UNCHANGED <<deviceStates, db, lastSnapshot, replayed, cycle, hist>>
    /\ UNCHANGED LoopFrame

\* element k of the slice a loader ranges over, read without a lock while a
\* request may rewrite the array: the element as it was or as it is
RangeElement(i, k) ==
    {loops[i].devices[k]} \cup {config.Devices[j] : j \in {k} \cap DOMAIN config.Devices}

\* one iteration of the loop of loadDeviceStates, monitoringMu not held
SeedDevice(i) ==
    /\ loops[i].pc = "seeding"
    /\ loops[i].next <= Len(loops[i].devices)
    /\ \E device \in RangeElement(i, loops[i].next) :
          deviceStates' = loadDeviceStates(<<device>>, db, deviceStates)
    /\ cycle' = Observing(deviceStates')
    /\ loops' = [loops EXCEPT ![i].next = @ + 1]
    /\ UNCHANGED <<db, lastSnapshot, replayed, hist>>
    /\ UNCHANGED LoopFrame

\* loadDeviceStates returns; the ticker of the session
SeedEnd(i) ==
    /\ loops[i].pc = "seeding"
    /\ loops[i].next > Len(loops[i].devices)
    /\ LoopMove(i, NewTicker(config.PollInterval), 0)

SeedStep(i) == SeedBegin(i) \/ SeedDevice(i) \/ SeedEnd(i)

NextSeed ==
    \/ StartMonitoring
    \/ StopMonitoring
    \/ AddDeviceHandler
    \/ UpdateDeviceHandler
    \/ DeleteDeviceHandler
    \/ \E i \in 1..Len(loops) : SeedStep(i)

SpecSeed == InitLife /\ [][NextSeed]_vars

----------------------------------------------------------------------------
(* Login calls of the poll loop and of the request handlers *)

\* the handlers that call UniFiClient.Login themselves
LoginHandlers == {"GetAccessPointsHandler", "GetUniFiClientsHandler"}

\* what a step of a Login call leaves alone
LoginFrame ==
    <<now, config, isMonitoring, deviceStates, db, lastSnapshot, replayed, cycle, hist,
      lifeVars, request, io, controller, authTrail>>

\* reauthenticateWithBackoff up to its Login call: authMu taken, the backoff
\* checked, lastAuthAttempt set
BeginReauthentication ==
    /\ "pollUniFi" \notin inFlight
    /\ ~BackoffInEffect
    /\ authRetryCount < MaxRetries
    /\ lastAuthAttempt' = now
    /\ inFlight' = inFlight \cup {"pollUniFi"}
    /\ UNCHANGED <<authRetryCount, authRetryBackoff>>
    /\ UNCHANGED LoginFrame

\* reauthenticateWithBackoff from the return of its Login call
EndReauthentication ==
    /\ "pollUniFi" \in inFlight
    /\ \E loginOK \in BOOLEAN :
          IF ~loginOK
          THEN /\ authRetryCount' = authRetryCount + 1
               /\ authRetryBackoff' = Backoff(authRetryCount + 1)
          ELSE /\ authRetryCount' = 0
               /\ authRetryBackoff' = {}
    /\ inFlight' = inFlight \ {"pollUniFi"}
    /\ UNCHANGED lastAuthAttempt
    /\ UNCHANGED LoginFrame

\* a handler calls app.UniFiClient.Login()
BeginHandlerLogin ==
    /\ \E h \in LoginHandlers \ inFlight : inFlight' = inFlight \cup {h}
    /\ UNCHANGED <<authRetryCount, lastAuthAttempt, authRetryBackoff>>
    /\ UNCHANGED LoginFrame

\* the handler's Login call returns
EndHandlerLogin ==
    /\ \E h \in LoginHandlers \cap inFlight : inFlight' = inFlight \ {h}
    /\ UNCHANGED <<authRetryCount, lastAuthAttempt, authRetryBackoff>>
    /\ UNCHANGED LoginFrame

NextLogin ==
    \/ BeginReauthentication
    \/ EndReauthentication
    \/ BeginHandlerLogin
    \/ EndHandlerLogin
    \/ ElapseSecond

SpecLogin == InitAuth /\ [][NextLogin]_vars

----------------------------------------------------------------------------
(* Vocabulary of the properties *)

Tracked == DOMAIN deviceStates

\* a step that is one poll cycle
PollStep == now' = now /\ Len(lastSnapshot') = 1

\* the entries of device m in the client list the step's poll cycle processed
ClientsOf(m) == {c \in Range(lastSnapshot'[1]) : ToUpper(c.MAC) = m}

\* the entries of device m in the client list of the most recent poll cycle
LastClientsOf(m) ==
    IF lastSnapshot = <<>> THEN {}
    ELSE {c \in Range(lastSnapshot[1]) : ToUpper(c.MAC) = m}

\* the step's poll cycle sees a qualifying gate event of m: a connect at the
\* gate AP with uptime below 30 s, or a roam to or from the gate AP
Qualifies(m) ==
    \E c \in ClientsOf(m) :
        \/ /\ ~deviceStates[m].IsConnected
           /\ c.AP_MAC = config.GateAPMAC
           /\ c.Uptime < 30
        \/ /\ deviceStates[m].IsConnected
           /\ deviceStates[m].CurrentAP # c.AP_MAC
           /\ (c.AP_MAC = config.GateAPMAC \/ deviceStates[m].CurrentAP = config.GateAPMAC)

Events(log) == {log[i].Event : i \in 1..Len(log)}

GateEvents == {"gate_triggered", "gate_skipped", "gate_error"}

\* the configured cooldown window, in seconds
Window == config.OpenDuration * 60

----------------------------------------------------------------------------
(* C1 *)

\* C1: any two successful actuator calls checkAndOpenGate makes for the same
\* device, over any sequence of poll cycles, are at least open_duration
\* minutes apart.
C1_CallsApart ==
    \A m \in Tracked :
        hist[m].prevOpenAt # ZeroTime => hist[m].openAt - hist[m].prevOpenAt >= Window

\* the gate opened twice for a device under a cooldown of at least a minute
C1_Witness ==
    \E m \in Tracked :
        /\ hist[m].prevOpenAt # ZeroTime
        /\ "ok" \in Range(cycle[m].calls)
        /\ config.OpenDuration >= 1

----------------------------------------------------------------------------
(* C2 *)

\* C2 as stated: of two qualifying gate events of a device within
\* open_duration minutes of each other, exactly one makes an actuator call;
\* the second makes none and produces a gate_skipped log entry.
C2_Original ==
    [][PollStep =>
         \A m \in Tracked :
            (Qualifies(m) /\ hist[m].lastAt # ZeroTime /\ now - hist[m].lastAt < Window)
            => /\ Len(hist[m].lastCalls) = 1
               /\ cycle'[m].calls = <<>>
               /\ "gate_skipped" \in Events(cycle'[m].log)]_vars

\* C2, amended: a qualifying gate event of a device less than open_duration
\* minutes after a successful actuator call for it makes no actuator call, and
\* produces a gate_skipped entry (and no other gate entry) when activity
\* logging is enabled and the log write succeeds.
C2_SkipInWindow ==
    [][PollStep =>
         \A m \in Tracked :
            (Qualifies(m) /\ hist[m].openAt # ZeroTime /\ now - hist[m].openAt < Window)
            => /\ cycle'[m].calls = <<>>
               /\ Events(cycle'[m].log) \cap GateEvents \subseteq {"gate_skipped"}
               /\ (config.LogActivity /\ cycle'[m].logOK)
                    => "gate_skipped" \in Events(cycle'[m].log)]_vars

\* a later qualifying event inside the window was skipped and logged
C2_Witness ==
    \E m \in Tracked :
        /\ cycle[m].invoked
        /\ cycle[m].calls = <<>>
        /\ "gate_skipped" \in Events(cycle[m].log)
        /\ hist[m].openAt # ZeroTime
        /\ hist[m].openAt < now
        /\ now - hist[m].openAt < Window

----------------------------------------------------------------------------
(* C3 *)

\* C3 as stated: when the actuator call fails, lastGateTrigger stays as it was
\* in memory and in the table, a gate_error entry is written and no other gate
\* entry, the call is made once in that cycle, and the next qualifying event
\* of the device calls the actuator again.
C3_Original ==
    [][PollStep =>
         \A m \in Tracked :
            /\ "fail" \in Range(cycle'[m].calls)
               => /\ deviceStates'[m].LastGateTrigger = deviceStates[m].LastGateTrigger
                  /\ \A k \in DOMAIN db' :
                        GetLastGateTrigger(db', k) = GetLastGateTrigger(db, k)
                  /\ cycle'[m].calls = <<"fail">>
                  /\ Events(cycle'[m].log) \cap GateEvents = {"gate_error"}
            /\ (Qualifies(m) /\ hist[m].lastCalls = <<"fail">>)
               => cycle'[m].calls # <<>>]_vars

\* C3, amended: when the actuator call fails, lastGateTrigger stays as it was
\* in memory and in the table, the call is made once in that cycle, no gate
\* entry other than gate_error is written, gate_error is written when activity
\* logging is enabled and the log write succeeds, and the next qualifying
\* event of the device calls the actuator again.
C3_FailedCall ==
    [][PollStep =>
         \A m \in Tracked :
            /\ "fail" \in Range(cycle'[m].calls)
               => /\ deviceStates'[m].LastGateTrigger = deviceStates[m].LastGateTrigger
                  /\ \A k \in DOMAIN db' :
                        GetLastGateTrigger(db', k) = GetLastGateTrigger(db, k)
                  /\ cycle'[m].calls = <<"fail">>
                  /\ Events(cycle'[m].log) \cap GateEvents \subseteq {"gate_error"}
                  /\ (config.LogActivity /\ cycle'[m].logOK)
                       => "gate_error" \in Events(cycle'[m].log)
            /\ (Qualifies(m) /\ hist[m].lastCalls = <<"fail">>)
               => cycle'[m].calls # <<>>]_vars

\* the actuator call of a device failed once its cooldown had run out, and
\* the failure was logged
C3_Witness ==
    \E m \in Tracked :
        /\ cycle[m].calls = <<"fail">>
        /\ "gate_error" \in Events(cycle[m].log)
        /\ deviceStates[m].LastGateTrigger # ZeroTime
        /\ config.OpenDuration >= 1
        /\ now - deviceStates[m].LastGateTrigger >= Window

----------------------------------------------------------------------------
(* C4 *)

NeverTriggered(m) == hist[m].openAt = ZeroTime

\* C4: a device that has never been triggered has the zero lastGateTrigger,
\* and its first qualifying gate event (every one until a call succeeds)
\* results in an actuator call, for every configured open_duration.
C4_FirstTrigger ==
    /\ [](\A m \in Tracked :
            NeverTriggered(m) => deviceStates[m].LastGateTrigger = ZeroTime)
    /\ [][PollStep =>
            \A m \in Tracked :
               (Qualifies(m) /\ NeverTriggered(m)) => cycle'[m].calls # <<>>]_vars

\* the first gate event of a device called the actuator under a cooldown
C4_Witness ==
    \E m \in Tracked :
        /\ cycle[m].invoked
        /\ cycle[m].calls # <<>>
        /\ hist[m].prevOpenAt = ZeroTime
        /\ hist[m].openAt \in {ZeroTime, now}
        /\ now = 0
        /\ config.OpenDuration >= 1

----------------------------------------------------------------------------
(* C5 *)

\* the row of m in the table shows it connected at ap
PersistedAt(table, m, ap) ==
    GetDeviceState(table, m).isConnected /\ GetDeviceState(table, m).currentAP = ap

\* C5: a tracked device that was not connected and appears at the gate AP with
\* an uptime of 30 seconds or more gets no connected event, no trigger, no
\* actuator call and no log entry, and its state and row become connected at
\* the gate AP.
C5_StationaryAtGate ==
    [][PollStep =>
         \A m \in Tracked : \A c \in ClientsOf(m) :
            (~deviceStates[m].IsConnected /\ c.AP_MAC = config.GateAPMAC /\ c.Uptime >= 30)
            => /\ cycle'[m].event = "none"
               /\ ~cycle'[m].invoked
               /\ cycle'[m].calls = <<>>
               /\ cycle'[m].log = <<>>
               /\ deviceStates'[m].IsConnected
               /\ deviceStates'[m].CurrentAP = config.GateAPMAC
               /\ deviceStates'[m].LastGateTrigger = deviceStates[m].LastGateTrigger
               /\ PersistedAt(db', m, config.GateAPMAC)]_vars

\* a device that was away is found parked at the gate AP
C5_Witness ==
    \E m \in Tracked :
        /\ cycle[m].case = "stationary"
        /\ \E c \in LastClientsOf(m) : c.AP_MAC = config.GateAPMAC /\ c.Uptime >= 30
        /\ deviceStates[m].IsConnected
        /\ deviceStates[m].CurrentAP = config.GateAPMAC

----------------------------------------------------------------------------
(* C6 *)

\* the step's poll cycle finds m, which was not connected, at the gate AP with
\* an uptime below 30 seconds
FreshAtGate(m) ==
    /\ ~deviceStates[m].IsConnected
    /\ \E c \in ClientsOf(m) : c.AP_MAC = config.GateAPMAC /\ c.Uptime < 30

\* C6 as stated: a device that was not connected and appears at the gate AP
\* with an uptime below 30 seconds gets a connected event with direction
\* arriving and is handed to the trigger, which makes an actuator call or
\* writes a gate_skipped entry.
C6_Original ==
    [][PollStep =>
         \A m \in Tracked :
            FreshAtGate(m)
            => /\ cycle'[m].event = "connected"
               /\ cycle'[m].direction = directionArriving
               /\ cycle'[m].invoked
               /\ \/ cycle'[m].calls # <<>>
                  \/ "gate_skipped" \in Events(cycle'[m].log)]_vars

\* C6, amended: such a device gets a connected event with direction arriving
\* and is handed to the trigger, which makes exactly one actuator call or,
\* inside the cooldown, none; the connected entry (direction arriving, to the
\* gate AP) and, without a call, the gate_skipped entry are written when
\* activity logging is enabled and the log write succeeds.
C6_FreshArrival ==
    [][PollStep =>
         \A m \in Tracked :
            FreshAtGate(m)
            => /\ cycle'[m].event = "connected"
               /\ cycle'[m].direction = directionArriving
               /\ cycle'[m].invoked
               /\ Len(cycle'[m].calls) <= 1
               /\ (cycle'[m].calls = <<>>)
                    = /\ deviceStates[m].LastGateTrigger # ZeroTime
                      /\ now - deviceStates[m].LastGateTrigger < Window
               /\ (config.LogActivity /\ cycle'[m].logOK)
                    => /\ \E i \in DOMAIN cycle'[m].log :
                             /\ cycle'[m].log[i].Event = "connected"
                             /\ cycle'[m].log[i].Direction = directionArriving
                             /\ cycle'[m].log[i].ToAP = config.GateAPMAC
                       /\ cycle'[m].calls = <<>>
                            => "gate_skipped" \in Events(cycle'[m].log)
               /\ ~(config.LogActivity /\ cycle'[m].logOK) => cycle'[m].log = <<>>]_vars

\* a fresh arrival at the gate AP inside the cooldown: handed to the trigger
\* and skipped
C6_Witness ==
    \E m \in Tracked :
        /\ cycle[m].case = "fresh_gate"
        /\ cycle[m].event = "connected"
        /\ cycle[m].invoked
        /\ cycle[m].calls = <<>>
        /\ config.OpenDuration >= 1

----------------------------------------------------------------------------
(* C7 *)

\* the direction the claim's table gives a roam
TableDirection(fromAP, toAP, gateAP) ==
    CASE toAP = gateAP /\ fromAP # "" -> "leaving"
      [] toAP = gateAP /\ fromAP = "" -> "arriving"
      [] fromAP = gateAP /\ toAP # gateAP -> "arriving"
      [] OTHER -> "unknown"

\* C7: every roam (fromAP # toAP) is classified leaving when toAP is the gate
\* AP and fromAP is non-empty, arriving when toAP is the gate AP and fromAP is
\* empty or when fromAP is the gate AP and toAP is not, unknown otherwise; the
\* roamed entry carries that direction.
C7_RoamDirections ==
    [][PollStep =>
         \A m \in Tracked : \A c \in ClientsOf(m) :
            (deviceStates[m].IsConnected /\ deviceStates[m].CurrentAP # c.AP_MAC)
            => LET d == TableDirection(deviceStates[m].CurrentAP, c.AP_MAC, config.GateAPMAC)
               IN /\ cycle'[m].event = "roamed"
                  /\ cycle'[m].direction = d
                  /\ \A i \in DOMAIN cycle'[m].log :
                        cycle'[m].log[i].Event = "roamed"
                        => /\ cycle'[m].log[i].Direction = d
                           /\ cycle'[m].log[i].FromAP = deviceStates[m].CurrentAP
                           /\ cycle'[m].log[i].ToAP = c.AP_MAC]_vars

\* a roam from an empty AP identifier to the gate AP, logged as arriving
C7_Witness ==
    \E m \in Tracked : \E i \in DOMAIN cycle[m].log :
        /\ cycle[m].log[i].Event = "roamed"
        /\ cycle[m].log[i].FromAP = ""
        /\ cycle[m].log[i].ToAP = config.GateAPMAC
        /\ cycle[m].log[i].Direction = directionArriving

----------------------------------------------------------------------------
(* C8 *)

\* the step's poll cycle sees an event of m one of whose APs is the gate AP
TouchesGate(m) ==
    \E c \in ClientsOf(m) :
        \/ c.AP_MAC = config.GateAPMAC
        \/ deviceStates[m].IsConnected /\ deviceStates[m].CurrentAP = config.GateAPMAC

\* C8: the trigger controller is invoked only for an event whose toAP or
\* fromAP is the gate AP; a connect to another AP or a roam between two other
\* APs makes no actuator call, writes no gate entry and leaves lastGateTrigger
\* as it was, in memory and in the table.
C8_OnlyGateEvents ==
    [][PollStep =>
         \A m \in Tracked :
            /\ cycle'[m].invoked => TouchesGate(m)
            /\ ~TouchesGate(m)
               => /\ cycle'[m].calls = <<>>
                  /\ Events(cycle'[m].log) \cap GateEvents = {}
                  /\ deviceStates'[m].LastGateTrigger = deviceStates[m].LastGateTrigger
                  /\ GetLastGateTrigger(db', m) = GetLastGateTrigger(db, m)]_vars

\* a roam between two APs neither of which is the gate AP, logged, with no
\* gate entry
C8_Witness ==
    \E m \in Tracked :
        /\ cycle[m].event = "roamed"
        /\ ~cycle[m].invoked
        /\ cycle[m].calls = <<>>
        /\ \E i \in DOMAIN cycle[m].log :
              /\ cycle[m].log[i].Event = "roamed"
              /\ cycle[m].log[i].FromAP # config.GateAPMAC
              /\ cycle[m].log[i].ToAP # config.GateAPMAC

----------------------------------------------------------------------------
(* C9 *)

\* C9: when a device that was connected is absent from the snapshot, the
\* trigger is not invoked, no actuator call is made, lastGateTrigger stays as
\* it was in memory and in the table, and the only entry written is one
\* disconnected entry with no direction (written when activity logging is
\* enabled and the write succeeds).
C9_DisconnectNeverTriggers ==
    [][PollStep =>
         \A m \in Tracked :
            (deviceStates[m].IsConnected /\ ClientsOf(m) = {})
            => /\ cycle'[m].event = "disconnected"
               /\ ~cycle'[m].invoked
               /\ cycle'[m].calls = <<>>
               /\ deviceStates'[m].LastGateTrigger = deviceStates[m].LastGateTrigger
               /\ GetLastGateTrigger(db', m) = GetLastGateTrigger(db, m)
               /\ Len(cycle'[m].log) <= 1
               /\ \A i \in DOMAIN cycle'[m].log :
                     /\ cycle'[m].log[i].Event = "disconnected"
                     /\ cycle'[m].log[i].Direction = ""
                     /\ cycle'[m].log[i].FromAP = deviceStates[m].CurrentAP
               /\ (config.LogActivity /\ cycle'[m].logOK) => Len(cycle'[m].log) = 1]_vars

\* a device that had opened the gate disconnected from the gate AP
C9_Witness ==
    \E m \in Tracked :
        /\ cycle[m].case = "disconnect"
        /\ cycle[m].calls = <<>>
        /\ \E i \in DOMAIN cycle[m].log :
              /\ cycle[m].log[i].Event = "disconnected"
              /\ cycle[m].log[i].FromAP = config.GateAPMAC
        /\ deviceStates[m].LastGateTrigger # ZeroTime

----------------------------------------------------------------------------
(* C10 *)

\* the state and the row of m after a cycle that only refreshes lastSeen
Refreshed(state, seen) == [state EXCEPT !.LastSeen = seen]

\* C10: a poll cycle that processes the same snapshot as the poll cycle before
\* it fires no event, writes no entry and makes no actuator call; in memory
\* and in the table only the last-seen time of the devices in the snapshot
\* changes.
C10_ReplayIdempotent ==
    [][(PollStep /\ lastSnapshot' = lastSnapshot) =>
         /\ \A m \in Tracked :
               /\ cycle'[m].event = "none"
               /\ ~cycle'[m].invoked
               /\ cycle'[m].calls = <<>>
               /\ cycle'[m].log = <<>>
               /\ deviceStates'[m] =
                     Refreshed(deviceStates[m],
                               IF ClientsOf(m) # {} THEN now ELSE deviceStates[m].LastSeen)
         /\ DOMAIN db' = DOMAIN db
         /\ \A k \in DOMAIN db : \E seen \in {db[k].last_seen, now} :
               db'[k] = [db[k] EXCEPT !.last_seen = seen]]_vars

\* the snapshot of a cycle in which the actuator call failed is replayed a
\* clock step later
C10_Witness ==
    \E m \in Tracked :
        /\ replayed
        /\ hist[m].lastCalls = <<"fail">>
        /\ hist[m].lastAt < now
        /\ cycle[m].case = "same"
        /\ deviceStates[m].LastSeen = now

----------------------------------------------------------------------------
(* C11 *)

\* a step that is one poll cycle, where requests and lifecycle calls are steps
\* too
Polled == PollStep /\ request' = request /\ lifeVars' = lifeVars

\* the step serves a device request
Served == request'.seq # request.seq

\* request r disabled or deleted its device and was answered with success
RemovalServed(r) ==
    /\ r.status = 200
    /\ r.op = "delete" \/ (r.op = "update" /\ ~r.enabled)

\* C11: while monitoring is active, a served update with enabled=false or a
\* served delete leaves no DeviceState of the device in the registry, in
\* whichever case its MAC is spelled, and the poll cycles after it produce no
\* event and no actuator call for the device.
C11_Removed ==
    [][/\ (isMonitoring /\ Served /\ RemovalServed(request'))
          => \A m \in DOMAIN deviceStates' : ToUpper(m) # ToUpper(request'.mac)
       /\ (Polled /\ RemovalServed(request))
          => \A m \in DOMAIN cycle' :
                ToUpper(m) = ToUpper(request.mac)
                => cycle'[m].event = "none" /\ cycle'[m].calls = <<>>]_vars

----------------------------------------------------------------------------
(* C12 *)

----------------------------------------------------------------------------
(* C13 *)

\* the step is a StartMonitoring call / a StopMonitoring call
StartCalled == starts' # starts

StopCalled == stops' # stops

\* C13: a StartMonitoring call made while monitoring is running changes
\* nothing: the registry, the stop channel and the table stay as they are, no
\* poll cycle is performed and no goroutine is added; a call made while
\* monitoring is not running adds exactly one.
C13_StartIsNoOp ==
    [][StartCalled
       => IF isMonitoring
          THEN UNCHANGED <<isMonitoring, deviceStates, db, stopMonitoring, closes, loops,
                           lastSnapshot, replayed, cycle, hist>>
          ELSE Len(loops') = Len(loops) + 1]_vars

\* two StartMonitoring calls were made on one running session
C13_Witness ==
    /\ starts = 2
    /\ stops = 0
    /\ isMonitoring
    /\ Len(loops) = 1

----------------------------------------------------------------------------
(* C14 *)

\* C14: no channel is closed twice and the nil channel is never closed, and
\* a StopMonitoring call made while monitoring is not running changes nothing.
C14_StopIsSafe ==
    /\ [](\A c \in DOMAIN closes : closes[c] <= 1 /\ (c = 0 => closes[c] = 0))
    /\ [][(StopCalled /\ ~isMonitoring)
          => UNCHANGED <<isMonitoring, deviceStates, db, stopMonitoring, closes, loops,
                         lastSnapshot, replayed, cycle, hist>>]_vars

\* a session was stopped and StopMonitoring was called once more, before the
\* start or after the stop
C14_Witness ==
    /\ stops = 2
    /\ ~isMonitoring
    /\ Len(loops) = 1
    /\ closes[1] = 1

----------------------------------------------------------------------------
(* C15 *)

\* StopMonitoring was called on session i, whose stop channel is channel i
Stopped(i) == i <= Len(loops) /\ closes[i] > 0

\* the goroutine of session i has returned
Returned(i) == i <= Len(loops) /\ loops[i].pc = "done"

\* C15: under fair scheduling, the goroutine of a session that StopMonitoring
\* was called on returns at some point, whatever is called afterwards.
C15_LoopTerminates ==
    \A i \in 1..MaxStarts : Stopped(i) ~> Returned(i)

----------------------------------------------------------------------------
(* C16 *)

\* goroutine i is in its loop, between two poll cycles
BetweenCycles(i) == loops[i].pc \in {"enter", "parked"}

\* C16: once StopMonitoring has been called on a session, the session's loop
\* begins no poll cycle: at most the cycle it is in finishes.
C16_NoCycleAfterStop ==
    [][\A i \in 1..Len(loops) :
          (Stopped(i) /\ BetweenCycles(i)) => loops'[i].pc # "poll"]_vars

----------------------------------------------------------------------------
(* C17 *)

\* the step is the loadDeviceStates call of a session
Loaded == \E i \in 1..Len(loops) : loops[i].pc = "load" /\ loops'[i].pc = "poll"

\* the normalized MACs of the enabled configured devices
EnabledMACs ==
    {ToUpper(config.Devices[k].MAC) : k \in {j \in 1..Len(config.Devices) : config.Devices[j].Enabled}}

\* C17: loadDeviceStates after a restart leaves a registry of exactly the
\* enabled configured devices, each with the currentAP, isConnected and
\* lastGateTrigger that the table holds in the row the poll cycles of the
\* previous session wrote for it, in whichever case the configuration spells
\* its MAC.
C17_RestartReloads ==
    [][(Loaded /\ Len(loops) > 1 /\ deviceStates = <<>>)
       => /\ DOMAIN deviceStates' = EnabledMACs
          /\ \A m \in EnabledMACs :
                /\ m \in DOMAIN db
                   => /\ deviceStates'[m].CurrentAP = db[m].current_ap
                      /\ deviceStates'[m].IsConnected = db[m].is_connected
                      /\ deviceStates'[m].LastGateTrigger = db[m].last_gate_trigger
                /\ m \notin DOMAIN db
                   => /\ deviceStates'[m].CurrentAP = ""
                      /\ ~deviceStates'[m].IsConnected
                      /\ deviceStates'[m].LastGateTrigger = ZeroTime]_vars

----------------------------------------------------------------------------
(* C18 *)

\* C18: a poll cycle in which the actuator call for a device succeeded
\* leaves the time of the call as the device's lastGateTrigger in the registry
\* and in its row of the table, also when the device connects for the first
\* time.
C18_TriggerPersisted ==
    [][PollStep
       => \A m \in Tracked :
             "ok" \in Range(cycle'[m].calls)
             => /\ deviceStates'[m].LastGateTrigger = now
                /\ m \in DOMAIN db'
                /\ db'[m].last_gate_trigger = now]_vars

----------------------------------------------------------------------------
(* C19 *)

\* min(2^(n-1), 64)
BackoffSeconds(n) == IF n >= 7 THEN 64 ELSE 2^(n - 1)

\* C19: after n consecutive failed attempts, for every n >= 1, the backoff is
\* min(2^(n-1), 64) seconds: at least one second, at most 64, never negative.
C19_BackoffCapped ==
    authRetryCount >= 1
    => /\ authRetryBackoff = Seconds(BackoffSeconds(authRetryCount))
       /\ ~IsNegative(authRetryBackoff)
       /\ ~Less(authRetryBackoff, Seconds(1))
       /\ ~Less(Seconds(64), authRetryBackoff)

----------------------------------------------------------------------------
(* C20 *)

\* the number of failures at the end of trail
RECURSIVE TrailingFailures(_)
TrailingFailures(trail) ==
    IF trail = <<>> \/ trail[Len(trail)] # "fail" THEN 0
    ELSE 1 + TrailingFailures(SubSeq(trail, 1, Len(trail) - 1))

\* C20: after one, two and three consecutive login failures the backoff is
\* 1 s, 2 s and 4 s and the retry count 1, 2 and 3; after a successful login
\* both are 0, so that the failure after it gives 1 s again.
C20_BackoffSequence ==
    LET n == TrailingFailures(authTrail)
    IN /\ authRetryCount = n
       /\ n = 0 => authRetryBackoff = {}
       /\ n = 1 => authRetryBackoff = FromInt(Second)
       /\ n = 2 => authRetryBackoff = Shl(FromInt(Second), 1)
       /\ n = 3 => authRetryBackoff = Shl(FromInt(Second), 2)

\* three failures, a success and a failure
C20_Witness ==
    /\ authTrail = <<"fail", "fail", "fail", "ok", "fail">>
    /\ authRetryCount = 1
    /\ authRetryBackoff = FromInt(Second)

----------------------------------------------------------------------------
(* C21 *)

\* the step is a login attempt that succeeded / that failed
LoginSucceeded == authTrail' = Append(authTrail, "ok")

LoginFailed == authTrail' = Append(authTrail, "fail")

\* C21: a successful re-authentication leaves retryCount 0, currentBackoff 0
\* and lastAttempt the zero timestamp.
C21_SuccessResetsAll ==
    [][LoginSucceeded
       => /\ authRetryCount' = 0
          /\ authRetryBackoff' = {}
          /\ lastAuthAttempt' = ZeroTime]_vars

----------------------------------------------------------------------------
(* C22 *)

\* the step is one poll cycle with its fetch
Cycled == now' = now /\ request' = request /\ lifeVars' = lifeVars /\ io' # <<>>

\* the authentication errors of a fetch
AuthFailures == {<<"not logged in">>, <<"failed to get clients:", "Unauthorized">>}

\* the cycle's first fetch failed with an authentication error
AuthFailed == io'[1].err \in AuthFailures

\* less than currentBackoff has passed since lastAttempt
InBackoff ==
    /\ lastAuthAttempt # ZeroTime
    /\ Less(Mul(FromInt(now - lastAuthAttempt), FromInt(1000000000)), authRetryBackoff)

\* the number of calls named call in calls
RECURSIVE Calls(_, _)
Calls(calls, call) ==
    IF calls = <<>> THEN 0
    ELSE (IF Head(calls).call = call THEN 1 ELSE 0) + Calls(Tail(calls), call)

\* the cycle left the registry, the table and the trigger history alone and
\* observed nothing
Skipped == UNCHANGED <<deviceStates, db, lastSnapshot, replayed, cycle, hist>>

\* C22: a re-authentication called less than currentBackoff after
\* lastAttempt makes no Login call and leaves retryCount, lastAttempt and
\* currentBackoff as they are, and the poll cycle is skipped.
C22_BackoffBlocks ==
    [][(Cycled /\ AuthFailed /\ InBackoff)
       => /\ Calls(io', "login") = 0
          /\ Calls(io', "fetch") = 1
          /\ UNCHANGED <<authRetryCount, lastAuthAttempt, authRetryBackoff>>
          /\ Skipped]_vars

\* a cycle met an authentication error one second after a second failed
\* login and made no call but its fetch
C22_Witness ==
    /\ authRetryCount = 2
    /\ now = lastAuthAttempt + 1
    /\ Len(io) = 1
    /\ io[1].err \in AuthFailures

----------------------------------------------------------------------------
(* C24 *)

\* the errors of a fetch that are not authentication errors
OtherFailures == {<<"failed to get clients:", "connection refused">>}

\* C24: a poll cycle whose fetch fails with an error that is not an
\* authentication error makes no further call and changes nothing: not the
\* registry, the table, the retry state or the trigger history, and it
\* observes no event; the loop stays as it is, so the next tick fetches again.
C24_FetchErrorSkips ==
    [][(Cycled /\ io'[1].err \in OtherFailures)
       => /\ Len(io') = 1
          /\ UNCHANGED authVars
          /\ UNCHANGED <<isMonitoring, loops, config>>
          /\ Skipped]_vars

\* a cycle failed on a refused connection while a backoff was pending
C24_Witness ==
    /\ authRetryCount = 1
    /\ Len(io) = 1
    /\ io[1].err \in OtherFailures
    /\ \E m \in Tracked : deviceStates[m].IsConnected

----------------------------------------------------------------------------
(* C25 *)

\* the client list the cycle's last fetch returned was processed: it is the
\* last snapshot, and each tracked device is connected exactly if it is in it
Processed ==
    LET clients == io'[Len(io')].clients
    IN /\ io'[Len(io')].err = <<>>
       /\ lastSnapshot' = <<clients>>
       /\ \A m \in DOMAIN deviceStates' :
             deviceStates'[m].IsConnected
             <=> \E i \in 1..Len(clients) : ToUpper(clients[i].MAC) = m

\* C25: a poll cycle whose fetch fails with an authentication error makes at
\* most one login and at most two fetches; after a successful login it
\* fetches exactly once more and processes what that fetch returns; when the
\* backoff blocks the login, the login fails or the second fetch fails, with
\* whatever error, the cycle is skipped.
C25_OneLoginOneRetry ==
    [][(Cycled /\ AuthFailed)
       => /\ Calls(io', "login") <= 1
          /\ Calls(io', "fetch") <= 2
          /\ IF Len(io') >= 2 /\ io'[2] = [call |-> "login", err |-> <<>>]
             THEN /\ Len(io') = 3
                  /\ io'[3].call = "fetch"
                  /\ IF io'[3].err = <<>> THEN Processed ELSE Skipped
             ELSE /\ Calls(io', "fetch") = 1
                  /\ Skipped]_vars

\* a cycle re-authenticated and processed the list of its second fetch: the
\* device was found
C25_Witness ==
    /\ Len(io) = 3
    /\ io[2].call = "login"
    /\ io[3].err = <<>>
    /\ io[3].clients # <<>>
    /\ lastSnapshot = <<io[3].clients>>
    /\ \E m \in Tracked : deviceStates[m].IsConnected /\ deviceStates[m].LastSeen = now

----------------------------------------------------------------------------
(* C23 *)

\* C23: at most one caller is inside Login at any time, and a Login call
\* begins only when the backoff since the last attempt has passed.
C23_OneLoginInFlight ==
    /\ [](Cardinality(inFlight) <= 1)
    /\ [][(inFlight' # inFlight /\ inFlight \subseteq inFlight') => ~InBackoff]_vars

----------------------------------------------------------------------------
(* C26 *)

\* the configuration with the activity-logging flag negated
OtherLogging == [config EXCEPT !.LogActivity = ~@]

\* what the poll cycle of this step does for each device under configuration
\* cfg, given the same snapshot and the same actuator outcomes, when its log
\* writes succeed or fail as logOK says
Rerun(cfg, logOK) ==
    [m \in DOMAIN deviceStates |->
        pollDevice(m, deviceStates[m], currentlyConnected(lastSnapshot'[1]), cfg, now,
                   cycle'[m].calls # <<"fail">>, logOK)]

\* C26: from the same registry and table, with the same snapshot and the same
\* actuator outcomes, a poll cycle makes the same actuator calls and leaves
\* the same registry and the same table whether activity logging is on or
\* off and whether the log writes succeed or fail; so two runs that differ in
\* the flag only stay in step, and only their logs differ.
C26_LoggingDecidesNothing ==
    [][PollStep
       => \A logOK \in BOOLEAN :
             LET other == Rerun(OtherLogging, logOK)
             IN /\ \A m \in Tracked :
                      /\ other[m].state = deviceStates'[m]
                      /\ other[m].calls = cycle'[m].calls
                /\ ApplyDevices(db, Tracked, other, now) = db']_vars

\* the gate was opened for a device with logging off, and a cooldown skipped
\* a call with logging on
C26_Witness ==
    \E m \in Tracked :
       /\ cycle[m].invoked
       /\ \/ ~config.LogActivity /\ cycle[m].calls = <<"ok">> /\ cycle[m].log = <<>>
          \/ config.LogActivity /\ cycle[m].calls = <<>> /\ cycle[m].log # <<>>

----------------------------------------------------------------------------
(* C27 *)

\* C27: no sequence of setup and settings updates lets a session start with a
\* poll interval under one second: when StartMonitoring's goroutine comes to
\* create its ticker the configured interval is at least 1, so that
\* time.NewTicker never panics.
C27_IntervalAtLeastOne ==
    /\ \A i \in 1..Len(loops) : loops[i].pc = "load" => config.PollInterval >= 1
    /\ Alive

----------------------------------------------------------------------------
(* C29 *)

\* goroutine i leaves the place pc of StartMonitoring in this step
Leaves(i, pc) == loops[i].pc = pc /\ loops'[i].pc # pc

\* C29: the goroutine of a session goes from seeding the registry straight
\* into a poll cycle, and enters the select that consumes ticks only when
\* that cycle is over: the first poll cycle waits for no tick, and it runs
\* on a registry that holds every enabled configured device.
C29_PollsOnStart ==
    [][\A i \in 1..Len(loops) :
          /\ Leaves(i, "load")
             => /\ loops'[i].pc = "poll"
                /\ EnabledMACs \subseteq DOMAIN deviceStates'
          /\ Leaves(i, "poll") => loops'[i].pc = "enter"
          /\ loops'[i].pc \in {"enter", "parked", "done"} => loops[i].pc # "load"]_vars

\* the first session has polled a snapshot and is about to enter its select
\* for the first time
C29_Witness ==
    /\ Len(loops) = 1
    /\ loops[1].pc = "enter"
    /\ lastSnapshot # <<>>
    /\ EnabledMACs \subseteq DOMAIN deviceStates

----------------------------------------------------------------------------
(* C28 *)

\* the cycle logged in and then fetched a snapshot
Reauthenticated ==
    /\ Len(io) = 3
    /\ io[2] = LoggedIn(TRUE)
    /\ io[3].call = "fetch" /\ io[3].err = Nil

\* C28: no outcome of a poll cycle ends the monitoring session, and once the
\* controller accepts logins and answers fetches, a later poll cycle logs in
\* again and processes a snapshot, whatever retry count and backoff the
\* outage has left.
C28_PollerRecovers ==
    /\ [](isMonitoring /\ Alive)
    /\ (controller = "expired") ~> (controller = "healthy" /\ Reauthenticated)

\* the loop has logged in and processed a snapshot after an outage of more
\* than twenty backoffs of 64 seconds, each begun by a failed login
C28_Witness ==
    /\ controller = "healthy"
    /\ Reauthenticated
    /\ now > 64 * 20
    /\ lastSnapshot # <<>>

----------------------------------------------------------------------------
(* C30 *)

\* the k-th poll cycle of the scenario is the last one that ran
After(k) == Len(io) = k

\* C30 as stated: poll 1 gives connected/arriving, then gate_triggered, and
\* sets lastGateTrigger; poll 2 gives no event; poll 3 gives disconnected and
\* no gate action; poll 4 gives connected/arriving, then gate_skipped and no
\* actuator call.
C30_Original ==
    \A m \in Tracked :
       /\ After(1)
          => /\ cycle[m].event = "connected"
             /\ cycle[m].direction = directionArriving
             /\ Events(cycle[m].log) = {"connected", "gate_triggered"}
             /\ cycle[m].calls = <<"ok">>
             /\ deviceStates[m].LastGateTrigger = 0
       /\ After(2) => cycle[m].event = "none" /\ cycle[m].log = <<>> /\ cycle[m].calls = <<>>
       /\ After(3)
          => /\ cycle[m].event = "disconnected"
             /\ ~cycle[m].invoked
             /\ cycle[m].calls = <<>>
       /\ After(4)
          => /\ cycle[m].event = "connected"
             /\ cycle[m].direction = directionArriving
             /\ Events(cycle[m].log) = {"connected", "gate_skipped"}
             /\ cycle[m].calls = <<>>

\* the entries the last cycle wrote for m are those of kinds, in this order,
\* when activity logging is on and the log writes succeed, and none otherwise
Logged(m, kinds) ==
    IF config.LogActivity /\ cycle[m].logOK
    THEN [i \in DOMAIN cycle[m].log |-> cycle[m].log[i].Event] = kinds
    ELSE cycle[m].log = <<>>

\* C30, amended: poll 1 classifies connected/arriving and calls the actuator
\* once; when the call succeeds lastGateTrigger becomes the time of poll 1,
\* and when it fails lastGateTrigger stays unset.  Poll 2 gives no event, no
\* entry and no call.  Poll 3 classifies disconnected and does not reach the
\* trigger controller.  Poll 4 classifies connected/arriving; it makes no
\* actuator call when the call of poll 1 succeeded, and calls the actuator
\* when that call failed.  The connected, gate_triggered, gate_error,
\* disconnected and gate_skipped entries are written when activity logging
\* is on and the log writes succeed.
C30_Scenario ==
    \A m \in Tracked :
       /\ After(1)
          => /\ cycle[m].event = "connected"
             /\ cycle[m].direction = directionArriving
             /\ Len(cycle[m].calls) = 1
             /\ IF cycle[m].calls = <<"ok">>
                THEN /\ deviceStates[m].LastGateTrigger = 0
                     /\ Logged(m, <<"connected", "gate_triggered">>)
                ELSE /\ deviceStates[m].LastGateTrigger = ZeroTime
                     /\ Logged(m, <<"connected", "gate_error">>)
       /\ After(2) => cycle[m].event = "none" /\ cycle[m].log = <<>> /\ cycle[m].calls = <<>>
       /\ After(3)
          => /\ cycle[m].event = "disconnected"
             /\ ~cycle[m].invoked
             /\ cycle[m].calls = <<>>
             /\ Logged(m, <<"disconnected">>)
       /\ After(4)
          => /\ cycle[m].event = "connected"
             /\ cycle[m].direction = directionArriving
             /\ cycle[m].invoked
             /\ IF hist[m].openAt = 0
                THEN /\ cycle[m].calls = <<>>
                     /\ Logged(m, <<"connected", "gate_skipped">>)
                     /\ deviceStates[m].LastGateTrigger = 0
                ELSE Len(cycle[m].calls) = 1

\* poll 4 has found the device back at the gate AP three minutes after the
\* call of poll 1 and has skipped the call, the entries written
C30_Witness ==
    \E m \in Tracked :
       /\ After(4)
       /\ now = 3 * Minute
       /\ cycle[m].calls = <<>>
       /\ Events(cycle[m].log) = {"connected", "gate_skipped"}
       /\ deviceStates[m].LastGateTrigger = 0

----------------------------------------------------------------------------
(* C31 *)

\* the MACs of a device list, as they are spelled
ListedMACs(devices) == {devices[i].MAC : i \in DOMAIN devices}

\* no two devices of the list have the same MAC
UniqueMACs(devices) ==
    \A i, j \in DOMAIN devices : devices[i].MAC = devices[j].MAC => i = j

\* the list without the devices whose MAC is mac, the order kept
Without(devices, mac) ==
    LET Other(d) == d.MAC # mac
    IN SelectSeq(devices, Other)

\* C31: the device list never holds a MAC twice.  An add of a listed MAC is
\* refused and leaves the list as it is; an add of a new MAC appends the
\* device, enabled.  An update or a delete of a MAC that is not listed is
\* refused and leaves the list as it is; an update changes the name and the
\* enabled flag of the named device only, and a delete removes the named
\* device and no other.
C31_KeyedByMAC ==
    /\ [](UniqueMACs(config.Devices))
    /\ [][Served =>
            LET r == request'
                old == config.Devices
                new == config'.Devices
                listed == r.mac \in ListedMACs(old)
            IN /\ r.op = "add"
                  => IF listed THEN new = old /\ r.status = 400
                     ELSE new = Append(old, [MAC |-> r.mac, Name |-> r.name, Enabled |-> TRUE])
               /\ r.op \in {"update", "delete"} /\ ~listed => new = old /\ r.status = 404
               /\ r.op = "update" /\ listed
                  => /\ Len(new) = Len(old)
                     /\ \A i \in DOMAIN old :
                           IF old[i].MAC = r.mac
                           THEN new[i] = [MAC |-> r.mac, Name |-> r.name, Enabled |-> r.enabled]
                           ELSE new[i] = old[i]
               /\ r.op = "delete" /\ listed
                  => new = Without(old, r.mac) /\ Len(new) = Len(old) - 1]_vars

\* an add of a listed MAC has been refused, the list still holding both
\* devices once
C31_Witness ==
    /\ request.op = "add"
    /\ request.status = 400
    /\ request.mac \in ListedMACs(config.Devices)
    /\ Len(config.Devices) = 2

----------------------------------------------------------------------------
(* C32 *)

\* C32: every key of the registry is the upper-case form of a MAC and is the
\* MAC its DeviceState holds, so that a tracked device has one entry, the
\* one a snapshot entry is matched with, in whichever case the
\* configuration, the add request or the URL of an update or a delete
\* spells it.
C32_KeysNormalized ==
    \A m \in DOMAIN deviceStates :
       /\ m = ToUpper(m)
       /\ deviceStates[m].MAC = m

----------------------------------------------------------------------------
(* C33 *)

\* C33: every DeviceState has an empty currentAP exactly when it is not
\* connected, whether the state was seeded at start, inserted by a request
\* or produced by a poll cycle, also from a client the controller reports
\* with an empty AP identifier.
C33_APIffConnected ==
    \A m \in DOMAIN deviceStates :
       (deviceStates[m].CurrentAP = "") = ~deviceStates[m].IsConnected

----------------------------------------------------------------------------
(* C34 *)

\* C34: the lastGateTrigger of a device never goes back: whatever polls,
\* actuator outcomes, updates of the device and stops and starts of
\* monitoring have happened, the DeviceState of a device holds no earlier
\* time than that of the last successful actuator call made for it.
C34_TriggerNeverGoesBack ==
    \A m \in DOMAIN deviceStates \cap DOMAIN hist :
       deviceStates[m].LastGateTrigger >= hist[m].openAt

----------------------------------------------------------------------------
(* C35 *)

\* the goroutines that have fetched a snapshot and not yet applied it
InProgress == {i \in 1..Len(loops) : loops[i].pc = "fetched"}

\* the fetches of the run whose snapshot has been applied
Applied == {k \in 1..Len(io) : \A i \in InProgress : loops[i].fetch # k}

\* C35: at most one poll cycle is between its fetch and the end of its
\* registry mutations, and no cycle applies its snapshot once a snapshot
\* fetched later has been applied, however ticks, stops and starts
\* interleave.
C35_PollsSequential ==
    /\ [](Cardinality(InProgress) <= 1)
    /\ [][\A i \in InProgress :
             loops'[i].pc # "fetched" => \A k \in Applied : k < loops[i].fetch]_vars

----------------------------------------------------------------------------
(* C36 *)

\* C36: the registry is written under the exclusive lock only, so that while
\* a goroutine is inside loadDeviceStates, seeding the registry at start, no
\* step of anything else (a device request, another StartMonitoring) changes
\* the registry.
C36_SeedingExclusive ==
    [][\A i \in Seeding : loops'[i] = loops[i] => deviceStates' = deviceStates]_vars

----------------------------------------------------------------------------
(* C37 *)

\* the AP the step's snapshot reports for device m, empty when m is absent
SnapshotAP(m) ==
    IF ClientsOf(ToUpper(m)) = {} THEN ""
    ELSE currentlyConnected(lastSnapshot'[1])[ToUpper(m)].AP_MAC

\* C37: after a poll cycle whose snapshot was obtained, every tracked device
\* is connected exactly when its normalized MAC is in the snapshot, its
\* current AP is the AP the snapshot reports (empty when absent), and on a
\* disconnect its previous AP is the AP it had; whatever the outcomes of the
\* event log and of the actuator.
C37_StateMatchesSnapshot ==
    [][PollStep =>
         \A m \in DOMAIN deviceStates' :
            /\ deviceStates'[m].IsConnected = (ClientsOf(ToUpper(m)) # {})
            /\ deviceStates'[m].CurrentAP = SnapshotAP(m)
            /\ m \in Tracked /\ deviceStates[m].IsConnected /\ ~deviceStates'[m].IsConnected
                  => deviceStates'[m].PreviousAP = deviceStates[m].CurrentAP]_vars

----------------------------------------------------------------------------
(* C38 *)

\* the cooldown of device m is in effect at the time of the step
CoolingDown(m) ==
    SinceLess(deviceStates[m].LastGateTrigger, now, cooldownDuration(config))

\* the step's poll cycle leaves device m where it was: absent and not
\* connected, or connected and reported at its AP
Stays(m) ==
    IF deviceStates[m].IsConnected
    THEN \E c \in ClientsOf(m) : c.AP_MAC = deviceStates[m].CurrentAP
    ELSE ClientsOf(m) = {}

\* C38: the cooldown is per device.  In a poll cycle, a device with a
\* qualifying event whose own cooldown is not in effect gets its own actuator
\* call, whatever the other devices triggered in the cycle or before; the
\* trigger time of a device changes only by its own successful call; and a
\* device the cycle has no news of keeps every field but lastSeen, whatever
\* the cycle triggers for the others.
C38_CooldownPerDevice ==
    [][PollStep =>
         \A b \in Tracked :
            /\ Qualifies(b) /\ ~CoolingDown(b) => cycle'[b].calls # <<>>
            /\ deviceStates'[b].LastGateTrigger # deviceStates[b].LastGateTrigger
                  => "ok" \in Range(cycle'[b].calls)
            /\ Stays(b) => [deviceStates'[b] EXCEPT !.LastSeen = 0]
                            = [deviceStates[b] EXCEPT !.LastSeen = 0]]_vars

\* two devices opened the gate in the same cycle
C38_Witness ==
    \E a \in Tracked, b \in Tracked :
        /\ a # b
        /\ "ok" \in Range(cycle[a].calls)
        /\ "ok" \in Range(cycle[b].calls)
        /\ deviceStates[a].LastGateTrigger = now
        /\ deviceStates[b].LastGateTrigger = now

----------------------------------------------------------------------------
(* C39 *)

\* C39: while monitoring is active, between device requests, the keys of the
\* registry are the normalized MACs of the enabled configured devices.
C39_RegistryMirrorsConfig ==
    isMonitoring => DOMAIN deviceStates = EnabledMACs

----------------------------------------------------------------------------
(* C40 *)

\* the poll goroutines that have not returned
LiveLoops == {i \in 1..Len(loops) : loops[i].pc \notin {"done", "panic"}}

\* C40: at most one poll loop is alive at any time, and the loop of an
\* earlier session begins no poll cycle once a newer session has started.
C40_OneLoopAlive ==
    /\ [](Cardinality(LiveLoops) <= 1)
    /\ [][\A i \in 1..(Len(loops) - 1) : loops'[i].pc = "poll" => loops[i].pc = "poll"]_vars

============================================================================
